---- MODULE Spec2Model ----
(***************************************************************************)
(* State-machine model of the ISP link monitor.                            *)
(*                                                                         *)
(*   - the server-side tracker (getState, processStatuses,                 *)
(*     getTrackedStatuses), with the JavaScript heap of the two containers *)
(*     it owns (the ispStates object and the eventLog array), so that a    *)
(*     snapshot that aliases live structures differs from one that copies  *)
(*     them;                                                               *)
(*   - the dashboard (load, updateStatesAndLog, updateTrafficHistory,      *)
(*     calculateBandwidth) and its interval poller;                        *)
(*   - the REST client (getWanStatuses of api-client.ts) with its Digest   *)
(*     codec, step by step between its awaits, for overlapping calls.      *)
(*                                                                         *)
(* Times are milliseconds since the epoch.  A tri-state link status        *)
(* (boolean | null) is one of the strings "true", "false", "null".  An     *)
(* optional field is a sequence of length 0 (absent) or 1 (present).       *)
(***************************************************************************)
EXTENDS Integers, Sequences, FiniteSets, TLC

VARIABLES
    clock,      \* the wall clock (Date.now()) at the last step that read it
    g,          \* globalThis[GLOBAL_KEY]: <<>> until getState creates it, then <<state>>
    heap,       \* the container objects: reference -> contents
    inFlight,   \* getTrackedStatuses calls awaiting their acquisition
    held,       \* a snapshot a caller still holds: <<>> or <<TrackerSnapshot>>
    heldView,   \* history: what held showed when it was returned
    emitted,    \* history: every event ever unshifted onto the log, oldest first
    last,       \* history: the last step taken and the poll result it was given
    bclock,     \* the browser's clock (Date.now()) at the dashboard's last step
    dash,       \* the dashboard component's React state and its eventIdCounter ref
    bandwidthStats, \* the dashboard's memoized bandwidth figures
    resp,       \* the route's response on its way to the dashboard: <<>> or <<response>>
    loads,      \* history: how many responses load() has handled
    calc,       \* the last call of calculateBandwidth: <<>> or <<[history, windowSec, now, result]>>
    env,        \* process.env of the server: the variables the REST client reads and writes
    rest,       \* the calls of the REST client's getWanStatuses: call -> its locals and position
    served,     \* how many challenge responses the device has issued
    fetching,   \* the dashboard's calls of load() that await their fetch
    snmp,       \* the call of getWanStatusesViaSNMP: its locals, its session and its position
    facade,     \* the call of the library's getWanStatuses: the client it invoked and its outcome
    conv,       \* the last call of toNumber: <<>> or <<[value, result]>>
    digest,     \* two calls of buildDigestHeader side by side: <<>> or <<first, second>>
    overlap     \* two calls of getTrackedStatuses that may overlap, and the tracker they share

trackerVars == <<clock, g, heap, inFlight, held, heldView, emitted>>
dashVars == <<bclock, dash, bandwidthStats, loads, fetching>>
\* What neither the tracker's steps nor load() touch.
restVars == <<env, rest, served>>
libVars == <<snmp, facade, conv, digest>>
elsewhere == <<calc, restVars, libVars, overlap>>
vars == <<clock, g, heap, inFlight, held, heldView, emitted, last,
          bclock, dash, bandwidthStats, resp, loads, fetching, elsewhere>>

----------------------------------------------------------------------------
(* Bounds of the model *)

MaxClock == 1        \* the clock runs from 0 to MaxClock
MaxEvents == 2       \* no pass starts once this many events were emitted
MaxLoads == 3        \* responses the dashboard handles
MaxOverflow == 3     \* the long run goes on until the log overflowed by this much

(* Program constants *)

EventLogCap == 100          \* entries the server's event log keeps
DashLogCap == 100           \* entries the dashboard's event log keeps
RetentionMs == 70000        \* traffic samples older than this are pruned
LongWindowSec == 60         \* the long bandwidth window
RefreshIntervalMs == 5000   \* NEXT_PUBLIC_REFRESH_MS, by default
MsPerSec == 1000

----------------------------------------------------------------------------
(* Values *)

Names == {"X1", "X2"}
TriStates == {"true", "false", "null"}
Null == "null"

\* Date.prototype.toISOString and its inverse new Date(iso).getTime(): the
\* string carries the millisecond count, so parsing gives it back.
ToISOString(t) == [iso |-> t]
DateParse(s) == s.iso

\* An IspInterfaceStatus, reduced to the fields any consumer reads.
Status(n, up, bin, bout) == [name |-> n, linkUp |-> up, bytesIn |-> bin, bytesOut |-> bout]

\* Poll results a REST acquisition can return (no traffic counters).
RestStatuses == {Status(n, up, <<>>, <<>>) : n \in Names, up \in TriStates}

\* Poll results of at most two records, in any order, a name possibly twice
\* (the REST client maps the device's records one by one and removes no duplicate).
ShortPolls == {<<>>} \cup {<<a>> : a \in RestStatuses}
TrackerPolls == ShortPolls \cup {<<a, b>> : a, b \in RestStatuses}

----------------------------------------------------------------------------
(* The heap *)

EmptyObject == <<>>

\* obj[k] = v on a plain object used as a map
ObjSet(obj, k, v) == [x \in (DOMAIN obj) \cup {k} |-> IF x = k THEN v ELSE obj[x]]

\* A reference no object of h uses.
FreshRef(h) == CHOOSE r \in 1..(Cardinality(DOMAIN h) + 1) :
                  /\ r \notin DOMAIN h
                  /\ \A q \in 1..(Cardinality(DOMAIN h) + 1) : q \notin DOMAIN h => r <= q

\* h with a new object holding v; the reference is FreshRef(h).
HeapNew(h, v) == [r \in (DOMAIN h) \cup {FreshRef(h)} |-> IF r \in DOMAIN h THEN h[r] ELSE v]

HeapPut(h, r, v) == [h EXCEPT ![r] = v]

\* Garbage collection: only what the tracker state or a held snapshot reaches stays.
Roots(gg, hh) ==
    (IF gg = <<>> THEN {} ELSE {gg[1].ispStates, gg[1].eventLog})
    \cup (IF hh = <<>> THEN {} ELSE {hh[1].ispStates, hh[1].eventLog})

Collect(h, gg, hh) == [r \in (DOMAIN h) \cap Roots(gg, hh) |-> h[r]]

----------------------------------------------------------------------------
(* The server-side tracker *)

\* getState(): the process-wide state, created on first use.
\* mem = [g, heap]; the result is [g, heap] with g non-empty.
GetState(mem, now) ==
    IF mem.g # <<>> THEN mem
    ELSE LET m  == FreshRef(mem.heap)
             h1 == HeapNew(mem.heap, EmptyObject)
             a  == FreshRef(h1)
             h2 == HeapNew(h1, <<>>)
         IN [g |-> << [serverStartedAt |-> ToISOString(now),
                       ispStates |-> m,
                       eventLog |-> a,
                       eventIdCounter |-> 0] >>,
             heap |-> h2]

\* Array.prototype.unshift
Unshift(arr, e) == <<e>> \o arr

\* Array.prototype.slice(-n): the last n elements
SliceLast(arr, n) == IF Len(arr) <= n THEN arr ELSE SubSeq(arr, Len(arr) - n + 1, Len(arr))

\* Array.prototype.slice(0, n)
Slice0(arr, n) == IF Len(arr) <= n THEN arr ELSE SubSeq(arr, 1, n)

\* currentUp ? "up" : "down"  (first the variant with the two names exchanged)
EventName_Exchanged(up) == IF up = "true" THEN "down" ELSE "up"
EventName(up) == IF up = "true" THEN "up" ELSE "down"

\* state.eventIdCounter += 1; the new value is the id of the event being logged.
\* (First the variant that forgets the increment.)
NextEventId_NoIncrement(st) == st.eventIdCounter
NextEventId(st) == st.eventIdCounter + 1

\* The LogEntry of a first observation: no duration field.  (First the variant
\* that measures a first observation like a transition, from itself.)
FirstEntry_ZeroDuration(id, status, nowIso) ==
    [id |-> id, interfaceName |-> status.name, event |-> EventName(status.linkUp),
     timestamp |-> nowIso, duration |-> <<0>>]
FirstEntry(id, status, nowIso) ==
    [id |-> id, interfaceName |-> status.name, event |-> EventName(status.linkUp),
     timestamp |-> nowIso, duration |-> <<>>]

\* const duration = now.getTime() - new Date(prev.lastChangeTime).getTime()
\* (first the variant with the operands swapped)
Duration_Swapped(now, prev) == DateParse(prev.lastChangeTime) - now
Duration(now, prev) == now - DateParse(prev.lastChangeTime)

\* The LogEntry of a transition.
ChangeEntry(id, status, nowIso, duration) ==
    [id |-> id, interfaceName |-> status.name, event |-> EventName(status.linkUp),
     timestamp |-> nowIso, duration |-> <<duration>>]

\* The test that guards the transition branch, and below it the variant of it
\* that lets a null reading through and the one that takes every resolved
\* reading for a change.
IsTransition_NoNullTest(prev, currentUp) == prev.linkUp # currentUp
IsTransition_AnyResolved(prev, currentUp) == currentUp # Null
IsTransition(prev, currentUp) == prev.linkUp # currentUp /\ currentUp # Null

\* One iteration of the for loop of processStatuses.
\* ps = [st, heap, out]: the state object, the heap, and (history) the events
\* this pass has unshifted so far.
ProcStep(ps, status, now) ==
    LET st        == ps.st
        map       == ps.heap[st.ispStates]
        nowIso    == ToISOString(now)
        currentUp == status.linkUp
        entry     == [linkUp |-> currentUp, lastChangeTime |-> nowIso]
    IN
    IF status.name \notin DOMAIN map
    THEN LET h1 == HeapPut(ps.heap, st.ispStates, ObjSet(map, status.name, entry))
         IN IF currentUp # Null
            THEN LET id == NextEventId(st)
                     e  == FirstEntry(id, status, nowIso)
                 IN [st   |-> [st EXCEPT !.eventIdCounter = id],
                     heap |-> HeapPut(h1, st.eventLog, Unshift(h1[st.eventLog], e)),
                     out  |-> Append(ps.out, e)]
            ELSE [ps EXCEPT !.heap = h1]
    ELSE LET prev == map[status.name]
         IN IF IsTransition(prev, currentUp)
            THEN LET id == NextEventId(st)
                     e  == ChangeEntry(id, status, nowIso, Duration(now, prev))
                     h1 == HeapPut(ps.heap, st.eventLog, Unshift(ps.heap[st.eventLog], e))
                 IN [st   |-> [st EXCEPT !.eventIdCounter = id],
                     heap |-> HeapPut(h1, st.ispStates, ObjSet(map, status.name, entry)),
                     out  |-> Append(ps.out, e)]
            ELSE ps

RECURSIVE ProcLoop(_, _, _)
ProcLoop(ps, statuses, now) ==
    IF statuses = <<>> THEN ps
    ELSE ProcLoop(ProcStep(ps, Head(statuses), now), Tail(statuses), now)

\* The cap after the loop:
\*   if (state.eventLog.length > 100) state.eventLog = state.eventLog.slice(0, 100)
\* (First the variant that keeps the other end of the array.)
CapLog_KeepTail(ps) ==
    LET log == ps.heap[ps.st.eventLog]
    IN IF Len(log) > EventLogCap
       THEN LET a == FreshRef(ps.heap)
            IN [ps EXCEPT !.heap = HeapNew(ps.heap, SliceLast(log, EventLogCap)),
                          !.st.eventLog = a]
       ELSE ps
CapLog(ps) ==
    LET log == ps.heap[ps.st.eventLog]
    IN IF Len(log) > EventLogCap
       THEN LET a == FreshRef(ps.heap)
            IN [ps EXCEPT !.heap = HeapNew(ps.heap, Slice0(log, EventLogCap)),
                          !.st.eventLog = a]
       ELSE ps

\* processStatuses(statuses) at time now, from mem = [g, heap].  (First the
\* variant that rebuilds the map from the current poll alone, dropping the
\* interfaces the poll does not mention.)
ProcessStatuses_Pruning(mem, statuses, now) ==
    LET m0  == GetState(mem, now)
        ps  == CapLog(ProcLoop([st |-> m0.g[1], heap |-> m0.heap, out |-> <<>>], statuses, now))
        map == ps.heap[ps.st.ispStates]
        inPoll == {statuses[k].name : k \in 1..Len(statuses)}
    IN [g |-> <<ps.st>>,
        heap |-> HeapPut(ps.heap, ps.st.ispStates, [n \in (DOMAIN map) \cap inPoll |-> map[n]]),
        out |-> ps.out]
ProcessStatuses(mem, statuses, now) ==
    LET m0 == GetState(mem, now)
        ps == CapLog(ProcLoop([st |-> m0.g[1], heap |-> m0.heap, out |-> <<>>], statuses, now))
    IN [g |-> <<ps.st>>, heap |-> ps.heap, out |-> ps.out]

\* The tracker snapshot getTrackedStatuses returns: { ...state.ispStates } and
\* [...state.eventLog] are new containers with the same contents.  (First the
\* variant that hands out the live containers.)
TrackerSnapshot_Aliasing(mem) ==
    LET st == mem.g[1]
    IN [snap |-> [serverStartedAt |-> st.serverStartedAt,
                  ispStates |-> st.ispStates, eventLog |-> st.eventLog],
        heap |-> mem.heap]
TrackerSnapshot(mem) ==
    LET st == mem.g[1]
        m  == FreshRef(mem.heap)
        h1 == HeapNew(mem.heap, mem.heap[st.ispStates])
        a  == FreshRef(h1)
        h2 == HeapNew(h1, h1[st.eventLog])
    IN [snap |-> [serverStartedAt |-> st.serverStartedAt, ispStates |-> m, eventLog |-> a],
        heap |-> h2]

\* What a snapshot (or the live state) shows through its references.
View(s, h) == [ispStates |-> h[s.ispStates], eventLog |-> h[s.eventLog]]

\* The tracker's contents, as values; empty before the state exists.
IspStates == IF g = <<>> THEN EmptyObject ELSE heap[g[1].ispStates]
EventLog == IF g = <<>> THEN <<>> ELSE heap[g[1].eventLog]
EventIdCounter == IF g = <<>> THEN 0 ELSE g[1].eventIdCounter

Pre == [g |-> g, heap |-> heap]

----------------------------------------------------------------------------
(* Steps of getTrackedStatuses *)

\* const statuses = await getWanStatuses(): the call is made and suspends.
\* (One call at a time: its caller awaits it before it calls again.)
BeginCall ==
    /\ inFlight = 0
    /\ inFlight' = inFlight + 1
    /\ last' = [op |-> "begin", statuses |-> <<>>]
    /\ UNCHANGED <<clock, g, heap, held, heldView, emitted>>
    /\ UNCHANGED elsewhere

TrackedBegin == BeginCall /\ UNCHANGED <<dashVars, resp>>

\* The acquisition resolves with one of polls at a time in times:
\* processStatuses runs, the snapshot is built and returned.  The caller then
\* holds the new snapshot, or (keep) goes on holding the one it had.
ResolveWith(polls, times, keeps) ==
    /\ inFlight > 0
    /\ inFlight' = inFlight - 1
    /\ \E statuses \in polls, now \in times, keep \in keeps :
          LET done  == ProcessStatuses(Pre, statuses, now)
              sn    == TrackerSnapshot([g |-> done.g, heap |-> done.heap])
              keeps_old == keep /\ held # <<>>
              h     == IF keeps_old THEN held ELSE <<sn.snap>>
          IN /\ clock' = now
             /\ g' = done.g
             /\ held' = h
             /\ heap' = Collect(sn.heap, done.g, h)
             /\ heldView' = IF keeps_old THEN heldView ELSE <<View(sn.snap, sn.heap)>>
             /\ emitted' = emitted \o done.out
             /\ last' = [op |-> "resolve", statuses |-> statuses]
    /\ UNCHANGED elsewhere

TrackedResolve ==
    /\ EventIdCounter < MaxEvents
    /\ ResolveWith(TrackerPolls, clock..MaxClock, {FALSE})
    /\ UNCHANGED <<dashVars, resp>>

\* The acquisition throws: the await rethrows and getTrackedStatuses rejects
\* before processStatuses is reached.
\* (First the variant whose failure path still runs a pass, over no statuses.)
RejectCall_StillProcessing ==
    /\ inFlight > 0
    /\ inFlight' = inFlight - 1
    /\ \E now \in clock..MaxClock :
          LET done == ProcessStatuses(Pre, <<>>, now)
          IN /\ clock' = now
             /\ g' = done.g
             /\ heap' = done.heap
    /\ last' = [op |-> "reject", statuses |-> <<>>]
    /\ UNCHANGED <<held, heldView, emitted>>
    /\ UNCHANGED elsewhere
RejectCall ==
    /\ inFlight > 0
    /\ inFlight' = inFlight - 1
    /\ \E now \in clock..MaxClock : clock' = now
    /\ last' = [op |-> "reject", statuses |-> <<>>]
    /\ UNCHANGED <<g, heap, held, heldView, emitted>>
    /\ UNCHANGED elsewhere

TrackedReject == RejectCall /\ UNCHANGED <<dashVars, resp>>

----------------------------------------------------------------------------
(* The REST client: getWanStatuses of api-client.ts.                       *)
(*                                                                         *)
(* A WWW-Authenticate header value is kept as its scheme and directives    *)
(* (each absent or present); the substring tests and the regular           *)
(* expression of the code are applied to that.  md5 is kept as a term over *)
(* its input, so that two digests agree exactly when their inputs do.      *)

Calls == {1, 2}

Undefined == <<>>
Directives == {"realm", "nonce", "qop", "opaque", "algorithm"}

WwwAuth(scheme, algorithm, realm, nonce, opaque) ==
    [scheme |-> scheme, algorithm |-> algorithm, realm |-> realm, nonce |-> nonce,
     qop |-> <<"auth">>, opaque |-> opaque]

\* h.includes("algorithm=MD5"): the text of the header holds the directive
\* with a value that begins with MD5.
IncludesAlgorithmMD5(h) == h.algorithm # <<>> /\ h.algorithm[1] \in {"MD5", "MD5-sess"}

\* h.toLowerCase().includes("digest")
IncludesDigest(h) == h.scheme \in {"Digest", "digest"}

\* authHeaders.find((h) => h.includes("algorithm=MD5")) || authHeaders[0]:
\* the first header that passes the test, or else the first header; <<>> is
\* undefined.
SelectChallenge(authHeaders) ==
    LET hits == {k \in 1..Len(authHeaders) : IncludesAlgorithmMD5(authHeaders[k])}
    IN IF hits # {} THEN <<authHeaders[CHOOSE k \in hits : \A j \in hits : k <= j]>>
       ELSE IF Len(authHeaders) > 0 THEN <<authHeaders[1]>>
       ELSE <<>>

\* parseDigestChallenge: the directives the regular expression finds.
ParseDigestChallenge(header) ==
    [d \in {x \in Directives : header[x] # <<>>} |-> header[d][1]]

\* `${challenge.realm}`: a missing property renders as "undefined".
Interpolate(challenge, d) == IF d \in DOMAIN challenge THEN challenge[d] ELSE "undefined"

Md5(str) == <<"md5", str>>

\* nc.toString(16).padStart(8, "0"), as its characters.
HexDigit(d) == <<"0", "1", "2", "3", "4", "5", "6", "7", "8", "9", "a", "b", "c", "d", "e", "f">>[d + 1]
RECURSIVE ToString16(_)
ToString16(n) == IF n < 16 THEN <<HexDigit(n)>> ELSE Append(ToString16(n \div 16), HexDigit(n % 16))
RECURSIVE PadStart(_, _, _)
PadStart(str, len, ch) == IF Len(str) >= len THEN str ELSE PadStart(<<ch>> \o str, len, ch)
NcStr_Unpadded(nc) == ToString16(nc)
NcStr(nc) == PadStart(ToString16(nc), 8, "0")

\* buildDigestHeader, with the client nonce it drew.
\* (First the variant whose response hash takes in the opaque directive.)
BuildDigestHeader_HashesOpaque(method, uri, username, password, challenge, nc, cnonce) ==
    LET ncStr == NcStr(nc)
        ha1 == Md5(<<username, Interpolate(challenge, "realm"), password>>)
        ha2 == Md5(<<method, uri>>)
        response == Md5(<<ha1, Interpolate(challenge, "nonce"), ncStr, cnonce,
                          Interpolate(challenge, "qop"), ha2,
                          Interpolate(challenge, "opaque")>>)
    IN [username |-> username,
        realm |-> Interpolate(challenge, "realm"),
        nonce |-> Interpolate(challenge, "nonce"),
        uri |-> uri,
        algorithm |-> "MD5",
        qop |-> Interpolate(challenge, "qop"),
        nc |-> ncStr,
        cnonce |-> cnonce,
        response |-> response,
        opaque |-> IF "opaque" \in DOMAIN challenge THEN <<challenge.opaque>> ELSE <<>>]
BuildDigestHeader(method, uri, username, password, challenge, nc, cnonce) ==
    LET ncStr == NcStr(nc)
        ha1 == Md5(<<username, Interpolate(challenge, "realm"), password>>)
        ha2 == Md5(<<method, uri>>)
        response == Md5(<<ha1, Interpolate(challenge, "nonce"), ncStr, cnonce,
                          Interpolate(challenge, "qop"), ha2>>)
    IN [username |-> username,
        realm |-> Interpolate(challenge, "realm"),
        nonce |-> Interpolate(challenge, "nonce"),
        uri |-> uri,
        algorithm |-> "MD5",
        qop |-> Interpolate(challenge, "qop"),
        nc |-> ncStr,
        cnonce |-> cnonce,
        response |-> response,
        opaque |-> IF "opaque" \in DOMAIN challenge THEN <<challenge.opaque>> ELSE <<>>]

AuthUri == "/api/sonicos/auth"
StatusUri == "/api/sonicos/reporting/interfaces/ipv4/status"

\* A request as it goes out: authorization is <<>> or <<header>>.
Request(method, uri, authorization) ==
    [method |-> method, uri |-> uri, authorization |-> authorization]

\* toBool of a device text: it holds "up", or else "down", or neither.
LinkTexts == {"Up", "Link Down", "No link", "1 Gbps Full Duplex"}
ToBool(value) ==
    IF value = <<>> THEN Null
    ELSE IF value[1] \in {"Up", "1 Gbps Full Duplex"} THEN "true"
    ELSE IF value[1] \in {"Link Down"} THEN "false"
    ELSE Null

\* A record of the device's JSON: [name, interface, link_status, status],
\* each absent or present.
Coalesce(a, b) == IF a # <<>> THEN a ELSE b
ToUpperCase(name) ==
    IF name = "x1" THEN "X1" ELSE IF name = "x2" THEN "X2" ELSE IF name = "x3" THEN "X3" ELSE name
Wanted == {"X1", "X2"}

\* records.map(...).filter(Boolean)
RECURSIVE MapRecords(_)
MapRecords(records) ==
    IF records = <<>> THEN <<>>
    ELSE LET rec == records[1]
             name == Coalesce(rec.name, rec.interface)
             tail == MapRecords(Tail(records))
         IN IF name = <<>> \/ ToUpperCase(name[1]) \notin Wanted THEN tail
            ELSE <<[name |-> ToUpperCase(name[1]),
                    linkUp |-> ToBool(Coalesce(rec.link_status, rec.status)),
                    linkSpeed |-> rec.status]>> \o tail

\* The body of the status response: JSON that is an array, an object with
\* an interfaces array, some other JSON, or text that is no JSON.
Records(json) ==
    IF json.kind = "array" THEN json.items
    ELSE IF json.kind = "object" /\ json.interfaces # <<>> THEN json.interfaces[1]
    ELSE <<>>

IdleCall ==
    [pc |-> "idle", originalTls |-> Undefined, challenge |-> <<>>, response |-> <<>>,
     result |-> <<>>, error |-> <<>>,
     \* history: the requests sent, the challenges and the answer to the first
     \* authenticated request received, the TLS setting found at the start
     sent |-> <<>>, got |-> <<>>, authResponse |-> <<>>, before |-> Undefined]

InitRest ==
    /\ env = [NODE_TLS_REJECT_UNAUTHORIZED |-> Undefined,
              SONICWALL_INSECURE_TLS |-> Undefined,
              SONICWALL_PASSWORD |-> <<"secret">>]
    /\ rest = [c \in Calls |-> IdleCall]
    /\ served = 0

\* finally { ... }: the setting goes back to what the call saved.
\* (First the variant that restores only after a normal return.)
Finally_OnlyOnReturn(fr, e, pc) ==
    IF pc = "thrown" THEN e
    ELSE [e EXCEPT !.NODE_TLS_REJECT_UNAUTHORIZED = fr.originalTls]
Finally(fr, e, pc) ==
    [e EXCEPT !.NODE_TLS_REJECT_UNAUTHORIZED = fr.originalTls]

InsecureTls(e) == Coalesce(e.SONICWALL_INSECURE_TLS, <<"false">>) = <<"true">>

\* The call ends by throwing: the finally block runs, the promise rejects.
Throw(c, fr, message) ==
    /\ rest' = [rest EXCEPT ![c] = [fr EXCEPT !.pc = "thrown", !.error = <<message>>]]
    /\ env' = Finally(fr, env, "thrown")

\* Lines 78-97: the configuration is read, the TLS setting saved and
\* relaxed, the challenge request sent.
RestStart(c) ==
    /\ rest[c].pc = "idle"
    /\ IF env.SONICWALL_PASSWORD = <<>>
       THEN /\ rest' = [rest EXCEPT ![c] = [@ EXCEPT !.pc = "thrown",
                                                    !.before = env.NODE_TLS_REJECT_UNAUTHORIZED,
                                                    !.error = <<<<"Missing env var: ", "SONICWALL_PASSWORD">>>>]]
            /\ UNCHANGED env
       ELSE /\ rest' = [rest EXCEPT ![c] = [@ EXCEPT !.pc = "awaitChallenge",
                                                    !.before = env.NODE_TLS_REJECT_UNAUTHORIZED,
                                                    !.originalTls = env.NODE_TLS_REJECT_UNAUTHORIZED,
                                                    !.sent = <<Request("POST", AuthUri, <<>>)>>]]
            /\ env' = IF InsecureTls(env)
                      THEN [env EXCEPT !.NODE_TLS_REJECT_UNAUTHORIZED = <<"0">>]
                      ELSE env
    /\ UNCHANGED served

\* Lines 97-121: the challenge response arrives with these WWW-Authenticate
\* headers; one is chosen and parsed, the first authenticated request sent.
ChallengeArrives(c, headers, cnonce) ==
    LET fr == [rest[c] EXCEPT !.got = headers]
        wwwAuth == SelectChallenge(headers)
    IN IF wwwAuth = <<>> \/ ~IncludesDigest(wwwAuth[1])
       THEN Throw(c, fr, <<"Expected digest authentication challenge">>)
       ELSE LET challenge == ParseDigestChallenge(wwwAuth[1])
                authHeader == BuildDigestHeader("POST", AuthUri, "admin", env.SONICWALL_PASSWORD[1],
                                                challenge, 1, cnonce)
            IN /\ rest' = [rest EXCEPT ![c] = [fr EXCEPT !.pc = "awaitAuth",
                                                         !.challenge = <<challenge>>,
                                                         !.sent = Append(@, Request("POST", AuthUri, <<authHeader>>))]]
               /\ UNCHANGED env

\* Lines 118-134: the answer to the first authenticated request arrives.
\* (First the variant that goes on whatever the status.)
AuthArrives_Unchecked(c, ok, status, cnonce) ==
    LET fr == [rest[c] EXCEPT !.authResponse = <<[ok |-> ok, status |-> status]>>]
        statusHeader == BuildDigestHeader("GET", StatusUri, "admin", env.SONICWALL_PASSWORD[1],
                                          fr.challenge[1], 2, cnonce)
    IN /\ rest' = [rest EXCEPT ![c] = [fr EXCEPT !.pc = "awaitStatus",
                                                 !.sent = Append(@, Request("GET", StatusUri, <<statusHeader>>))]]
       /\ UNCHANGED env
AuthArrives(c, ok, status, cnonce) ==
    LET fr == [rest[c] EXCEPT !.authResponse = <<[ok |-> ok, status |-> status]>>]
    IN IF ~ok
       THEN Throw(c, fr, <<"Auth failed: ", status>>)
       ELSE LET statusHeader == BuildDigestHeader("GET", StatusUri, "admin", env.SONICWALL_PASSWORD[1],
                                                  fr.challenge[1], 2, cnonce)
            IN /\ rest' = [rest EXCEPT ![c] = [fr EXCEPT !.pc = "awaitStatus",
                                                         !.sent = Append(@, Request("GET", StatusUri, <<statusHeader>>))]]
               /\ UNCHANGED env

\* Lines 132-136: the status response arrives and response.json() is awaited.
StatusArrives(c, response) ==
    /\ rest' = [rest EXCEPT ![c] = [@ EXCEPT !.pc = "awaitJson", !.response = <<response>>]]
    /\ UNCHANGED env

\* Lines 136-172: the body is parsed, or is no JSON; the records are mapped
\* and returned.
\* (First the variant that takes a body of another shape for an error.)
JsonSettles_Strict(c) ==
    LET fr == rest[c]
        json == fr.response[1].body
    IN IF json.kind = "text"
       THEN Throw(c, fr, <<"Unexpected token < in JSON">>)
       ELSE IF json.kind # "array" /\ ~(json.kind = "object" /\ json.interfaces # <<>>)
       THEN Throw(c, fr, <<"Unexpected response shape">>)
       ELSE /\ rest' = [rest EXCEPT ![c] = [fr EXCEPT !.pc = "returned",
                                                      !.result = <<MapRecords(Records(json))>>]]
            /\ env' = Finally(fr, env, "returned")
JsonSettles(c) ==
    LET fr == rest[c]
        json == fr.response[1].body
    IN IF json.kind = "text"
       THEN Throw(c, fr, <<"Unexpected token < in JSON">>)
       ELSE /\ rest' = [rest EXCEPT ![c] = [fr EXCEPT !.pc = "returned",
                                                      !.result = <<MapRecords(Records(json))>>]]
            /\ env' = Finally(fr, env, "returned")

----------------------------------------------------------------------------
(* The dashboard *)

\* ISP_NAMES with no NEXT_PUBLIC_ISP_NAME_* set, and getIspName.
ISP_NAMES == [X1 |-> "X1", X2 |-> "X2"]
GetIspName(interfaceName) ==
    IF interfaceName \in DOMAIN ISP_NAMES THEN ISP_NAMES[interfaceName] ELSE interfaceName

\* The component's state after its first render.
DashInit ==
    [statuses |-> <<>>, errorMessage |-> <<>>, fetchedAt |-> <<>>,
     eventLog |-> <<>>, ispStates |-> EmptyObject, trafficHistory |-> EmptyObject,
     eventIdCounter |-> 0]

\* Math.max(10, Math.ceil(refreshIntervalMs / 1000) * 5)
CeilDiv(a, b) == (a + b - 1) \div b
ShortWindowSec ==
    LET w == CeilDiv(RefreshIntervalMs, MsPerSec) * 5 IN IF w > 10 THEN w ELSE 10

\* A rate bytes / (ms / 1000) in bytes per second, kept as an exact fraction.
\* (First the variant that forgets that the timestamps are milliseconds.)
Rate_PerMillisecond(bytes, ms) == [num |-> bytes, den |-> ms]
Rate(bytes, ms) == [num |-> bytes * MsPerSec, den |-> ms]

\* calculateBandwidth(history, windowSec) evaluated when Date.now() = now:
\* <<>> is null, <<[inBps, outBps]>> a result.
\* (First the variant without the guard against negative deltas.)
CalculateBandwidth_NoNegativeGuard(history, windowSec, now) ==
    IF Len(history) < 2 THEN <<>>
    ELSE LET cutoff == now - windowSec * MsPerSec
             samplesInWindow == SelectSeq(history, LAMBDA x : x.timestamp >= cutoff)
         IN IF Len(samplesInWindow) < 2 THEN <<>>
            ELSE LET oldest == samplesInWindow[1]
                     newest == samplesInWindow[Len(samplesInWindow)]
                     timeDiffMs == newest.timestamp - oldest.timestamp
                 IN IF timeDiffMs < MsPerSec THEN <<>>
                    ELSE << [inBps  |-> Rate(newest.bytesIn - oldest.bytesIn, timeDiffMs),
                             outBps |-> Rate(newest.bytesOut - oldest.bytesOut, timeDiffMs)] >>
CalculateBandwidth(history, windowSec, now) ==
    IF Len(history) < 2 THEN <<>>
    ELSE LET cutoff == now - windowSec * MsPerSec
             samplesInWindow == SelectSeq(history, LAMBDA x : x.timestamp >= cutoff)
         IN IF Len(samplesInWindow) < 2 THEN <<>>
            ELSE LET oldest == samplesInWindow[1]
                     newest == samplesInWindow[Len(samplesInWindow)]
                     timeDiffMs == newest.timestamp - oldest.timestamp
                     bytesInDiff == newest.bytesIn - oldest.bytesIn
                     bytesOutDiff == newest.bytesOut - oldest.bytesOut
                 IN IF timeDiffMs < MsPerSec THEN <<>>
                    ELSE IF bytesInDiff < 0 \/ bytesOutDiff < 0 THEN <<>>
                    ELSE << [inBps  |-> Rate(bytesInDiff, timeDiffMs),
                             outBps |-> Rate(bytesOutDiff, timeDiffMs)] >>

\* The bandwidthStats memo, recomputed by the render that follows a change of
\* trafficHistory or fetchedAt.
BandwidthStats(trafficHistory, now) ==
    [n \in DOMAIN trafficHistory |->
        [bwShort |-> CalculateBandwidth(trafficHistory[n], ShortWindowSec, now),
         bw60s   |-> CalculateBandwidth(trafficHistory[n], LongWindowSec, now)]]

\* One iteration of the loop of updateStatesAndLog's updater.  acc = [next,
\* entries, counter]; prevStates is the state the updater was given.
DashStep(acc, prevStates, status, now) ==
    LET currentUp == status.linkUp
        entry == [linkUp |-> currentUp, lastChangeTime |-> now]
    IN
    IF status.name \notin DOMAIN prevStates
    THEN LET nxt == ObjSet(acc.next, status.name, entry)
         IN IF currentUp # Null
            THEN [next |-> nxt,
                  counter |-> acc.counter + 1,
                  entries |-> Append(acc.entries,
                      [id |-> <<"event", acc.counter + 1>>, isp |-> GetIspName(status.name),
                       interfaceName |-> status.name, event |-> EventName(currentUp),
                       timestamp |-> now, duration |-> <<>>])]
            ELSE [acc EXCEPT !.next = nxt]
    ELSE LET prev == prevStates[status.name]
         IN IF prev.linkUp # currentUp /\ currentUp # Null
            THEN [next |-> ObjSet(acc.next, status.name, entry),
                  counter |-> acc.counter + 1,
                  entries |-> Append(acc.entries,
                      [id |-> <<"event", acc.counter + 1>>, isp |-> GetIspName(status.name),
                       interfaceName |-> status.name, event |-> EventName(currentUp),
                       timestamp |-> now,
                       duration |-> <<now - prev.lastChangeTime>>])]
            ELSE acc

RECURSIVE DashLoop(_, _, _, _)
DashLoop(acc, prevStates, statuses, now) ==
    IF statuses = <<>> THEN acc
    ELSE DashLoop(DashStep(acc, prevStates, Head(statuses), now), prevStates, Tail(statuses), now)

\* updateStatesAndLog(newStatuses) at time now.
UpdateStatesAndLog(d, newStatuses, now) ==
    LET acc == DashLoop([next |-> d.ispStates, entries |-> <<>>, counter |-> d.eventIdCounter],
                        d.ispStates, newStatuses, now)
    IN [d EXCEPT !.ispStates = acc.next,
                 !.eventIdCounter = acc.counter,
                 !.eventLog = IF Len(acc.entries) > 0
                              THEN Slice0(acc.entries \o d.eventLog, DashLogCap)
                              ELSE d.eventLog]

\* One iteration of the loop of updateTrafficHistory's updater.
TrafficStep(next, prev, status, now) ==
    IF status.bytesIn = <<>> THEN next
    ELSE LET cutoff   == now - RetentionMs
             existing == IF status.name \in DOMAIN prev THEN prev[status.name] ELSE <<>>
             filtered == SelectSeq(existing, LAMBDA x : x.timestamp >= cutoff)
         IN ObjSet(next, status.name,
                   Append(filtered,
                          [timestamp |-> now,
                           bytesIn   |-> status.bytesIn[1],
                           bytesOut  |-> IF status.bytesOut = <<>> THEN 0 ELSE status.bytesOut[1]]))

RECURSIVE TrafficLoop(_, _, _, _)
TrafficLoop(next, prev, statuses, now) ==
    IF statuses = <<>> THEN next
    ELSE TrafficLoop(TrafficStep(next, prev, Head(statuses), now), prev, Tail(statuses), now)

\* updateTrafficHistory(newStatuses) at time now.
UpdateTrafficHistory(d, newStatuses, now) ==
    [d EXCEPT !.trafficHistory = TrafficLoop(d.trafficHistory, d.trafficHistory, newStatuses, now)]

\* The sort of load(): X2 first, then by name.
SortStatuses(statuses) ==
    SelectSeq(statuses, LAMBDA x : x.name = "X2") \o SelectSeq(statuses, LAMBDA x : x.name # "X2")

\* The body of load() after an ok response r = [ok, fetchedAt, statuses].
\* (First the variant that stamps the traffic samples with the response's
\* fetchedAt instead of the time of handling.)
LoadSuccess_StampedAtFetch(d, r, now) ==
    LET d1 == [d EXCEPT !.statuses = SortStatuses(r.statuses),
                        !.fetchedAt = <<r.fetchedAt>>,
                        !.errorMessage = <<>>]
    IN UpdateTrafficHistory(UpdateStatesAndLog(d1, r.statuses, now), r.statuses,
                            DateParse(r.fetchedAt))
LoadSuccess(d, r, now) ==
    LET d1 == [d EXCEPT !.statuses = SortStatuses(r.statuses),
                        !.fetchedAt = <<r.fetchedAt>>,
                        !.errorMessage = <<>>]
    IN UpdateTrafficHistory(UpdateStatesAndLog(d1, r.statuses, now), r.statuses, now)

\* The body of load() when the response is not ok or an await throws.
\* (First the variant that also clears what the dashboard shows.)
LoadFailure_Clearing(d, message) ==
    [d EXCEPT !.errorMessage = <<message>>, !.statuses = <<>>,
              !.ispStates = EmptyObject, !.trafficHistory = EmptyObject]
LoadFailure(d, message) == [d EXCEPT !.errorMessage = <<message>>]

ErrorMessages == {"Request failed", "Unknown error", "Auth failed: 401"}

\* load() receives an ok response and handles it; the render that follows
\* recomputes the bandwidth figures.  An arrival is [r, now]: the response and
\* the browser's time when load() handles it.
LoadOkWith(arrivals) ==
    /\ loads < MaxLoads
    /\ loads' = loads + 1
    /\ \E a \in arrivals :
          LET d == LoadSuccess(dash, a.r, a.now)
          IN /\ dash' = d
             /\ bclock' = a.now
             /\ bandwidthStats' = BandwidthStats(d.trafficHistory, a.now)
             /\ last' = [op |-> "loadOk", statuses |-> a.r.statuses]
    /\ UNCHANGED elsewhere

\* load() gets a response that is not ok, or fetch or response.json() throws.
LoadFailWith(messages, times) ==
    /\ loads < MaxLoads
    /\ loads' = loads + 1
    /\ \E m \in messages, now \in times :
          /\ dash' = LoadFailure(dash, m)
          /\ bclock' = now
          /\ last' = [op |-> "loadFail", statuses |-> <<>>]
    /\ UNCHANGED bandwidthStats
    /\ UNCHANGED elsewhere

\* Poll results with traffic counters, as the SNMP client returns them, and one
\* without, as the REST client does.
CountedX1 == {Status("X1", "true", <<1000>>, <<1000>>),
              Status("X1", "true", <<5000>>, <<1000>>),
              Status("X1", "false", <<1000>>, <<5000>>)}
DashPolls == {<<a>> : a \in CountedX1}
             \cup {<<Status("X1", "null", <<>>, <<>>)>>,
                   <<Status("X2", "true", <<5000>>, <<5000>>), Status("X1", "true", <<5000>>, <<5000>>)>>}

\* Time between two responses: under and at a second, the short window, past
\* the retention.
DashSteps == {500, 1000, 25000, 71000}

\* (The server's clock and the browser's agree.)
DashLoadOk ==
    /\ LoadOkWith({[r |-> [ok |-> TRUE, fetchedAt |-> ToISOString(bclock + dt), statuses |-> p],
                    now |-> bclock + dt] : p \in DashPolls, dt \in DashSteps})
    /\ UNCHANGED <<trackerVars, resp, fetching>>

DashLoadFail ==
    /\ LoadFailWith(ErrorMessages, {bclock + dt : dt \in DashSteps})
    /\ UNCHANGED <<trackerVars, resp, fetching>>

\* getWanStatusesViaSNMP before it is called: no session, no request, no local.
IdleSnmp ==
    [pc |-> "idle", session |-> "none", closes |-> 0, requests |-> <<>>, answers |-> 0,
     ifDescrResults |-> <<>>, ifIndexMap |-> <<>>,
     ipAddrResults |-> <<>>, ipIndexResults |-> <<>>,
     ipByIfIndex |-> <<>>, allOids |-> <<>>, results |-> <<>>,
     result |-> <<>>, error |-> <<>>]

\* The library's getWanStatuses before it is called.
IdleFacade ==
    [pc |-> "idle", selector |-> <<>>, method |-> "", invoked |-> <<>>,
     result |-> <<>>, error |-> <<>>]

\* Two calls of getTrackedStatuses before they are made, in a process whose
\* tracker state does not exist yet.  (seen: history, the tracker as the call
\* found it when it was made; passes: history, the poll results processed.)
IdleOverlap ==
    [mem |-> [g |-> <<>>, heap |-> <<>>],
     now |-> 0,
     calls |-> [c \in Calls |-> [pc |-> "idle", seen |-> <<>>, returned |-> <<>>]],
     passes |-> <<>>]

InitOutsideRest ==
    /\ snmp = IdleSnmp
    /\ facade = IdleFacade
    /\ conv = <<>>
    /\ digest = <<>>
    /\ overlap = IdleOverlap
    /\ clock = 0
    /\ g = <<>>
    /\ heap = <<>>
    /\ inFlight = 0
    /\ held = <<>>
    /\ heldView = <<>>
    /\ emitted = <<>>
    /\ last = [op |-> "init", statuses |-> <<>>]
    /\ bclock = 0
    /\ dash = DashInit
    /\ bandwidthStats = EmptyObject
    /\ resp = <<>>
    /\ loads = 0
    /\ fetching = 0
    /\ calc = <<>>

Init == InitOutsideRest /\ InitRest

Next == TrackedBegin \/ TrackedResolve \/ TrackedReject

Spec == Init /\ [][Next]_vars

----------------------------------------------------------------------------
(* A long run: a link that flaps at every poll, one millisecond tick per   *)
(* poll, until the event log has overflowed.  Near the cap a second        *)
(* interface starts to flap too, so that one pass can overflow the log by  *)
(* more than one entry.                                                    *)

Flip(n) ==
    Status(n, IF n \in DOMAIN IspStates /\ IspStates[n].linkUp = "true" THEN "false" ELSE "true",
           <<>>, <<>>)

FlapPolls ==
    IF EventIdCounter + 2 < EventLogCap
    THEN {<<Flip("X1")>>}
    ELSE {<<Flip("X1")>>, <<Flip("X1"), Flip("X2")>>}

FlapResolve ==
    /\ EventIdCounter < EventLogCap + MaxOverflow
    /\ ResolveWith(FlapPolls, {clock + 1}, {FALSE})
    /\ UNCHANGED <<dashVars, resp>>

NextFlap == TrackedBegin \/ FlapResolve

SpecFlap == Init /\ [][NextFlap]_vars

----------------------------------------------------------------------------
(* Callers that may go on holding an earlier snapshot while later passes   *)
(* run.                                                                    *)

HoldingResolve ==
    /\ EventIdCounter < MaxEvents
    /\ ResolveWith(ShortPolls, clock..MaxClock, BOOLEAN)
    /\ UNCHANGED <<dashVars, resp>>

NextHold == TrackedBegin \/ HoldingResolve

SpecHold == Init /\ [][NextHold]_vars

----------------------------------------------------------------------------
(* One poll end to end: the dashboard's load() fetches the route, the      *)
(* route awaits getTrackedStatuses and answers {ok: true, fetchedAt,       *)
(* statuses, ...} or, when that rejects, {ok: false, error} with status    *)
(* 500; load() then handles the response.  One poll at a time.             *)

PollBegin ==
    /\ resp = <<>>
    /\ loads < MaxLoads
    /\ BeginCall
    /\ UNCHANGED <<dashVars, resp>>

PollResolve ==
    /\ EventIdCounter < MaxEvents
    /\ ResolveWith(DashPolls \cup {<<>>}, clock..MaxClock, {FALSE})
    /\ resp' = <<[ok |-> TRUE, fetchedAt |-> ToISOString(clock'), statuses |-> last'.statuses]>>
    /\ UNCHANGED dashVars

PollReject ==
    /\ RejectCall
    /\ resp' = <<[ok |-> FALSE, error |-> "Auth failed: 401"]>>
    /\ UNCHANGED dashVars

PollLoadOk ==
    /\ resp # <<>>
    /\ resp[1].ok
    /\ LoadOkWith({[r |-> resp[1], now |-> bclock + MsPerSec]})
    /\ resp' = <<>>
    /\ UNCHANGED <<trackerVars, fetching>>

\* The response is the route's error, or it never arrives and fetch throws.
PollLoadFail ==
    /\ resp # <<>>
    /\ LoadFailWith(IF resp[1].ok THEN {"Failed to fetch"} ELSE {resp[1].error},
                    {bclock + MsPerSec})
    /\ resp' = <<>>
    /\ UNCHANGED <<trackerVars, fetching>>

NextPoll == PollBegin \/ PollResolve \/ PollReject \/ PollLoadOk \/ PollLoadFail

SpecPoll == Init /\ [][NextPoll]_vars

----------------------------------------------------------------------------
(* The dashboard alone, fed responses at irregular intervals. *)

NextDash == DashLoadOk \/ DashLoadFail

SpecDash == Init /\ [][NextDash]_vars

----------------------------------------------------------------------------
(* calculateBandwidth on its own: called on any history a dashboard can    *)
(* hold (samples in the order they were taken), for a window, at a time.   *)

RateTimes == {0, 2000, 4000, 4500}
RateBytes == {1000, 5000}
RateSamples == [timestamp : RateTimes, bytesIn : RateBytes, bytesOut : RateBytes]
RateHistories ==
    {<<>>}
    \cup {<<a>> : a \in RateSamples}
    \cup {h \in {<<a, b>> : a \in RateSamples, b \in RateSamples} : h[2].timestamp > h[1].timestamp}
    \cup {<<a, b, c>> : a \in {x \in RateSamples : x.timestamp = 0},
                         b \in {x \in RateSamples : x.timestamp = 2000},
                         c \in {x \in RateSamples : x.timestamp = 4000}}
RateWindows == {2, 4, 10}
RateNows == {4000, 4001, 4500, 8000}

CalcCall ==
    /\ \E history \in RateHistories, windowSec \in RateWindows, now \in RateNows :
          /\ \A k \in 1..Len(history) : history[k].timestamp <= now
          /\ calc' = <<[history |-> history, windowSec |-> windowSec, now |-> now,
                        result |-> CalculateBandwidth(history, windowSec, now)]>>
    /\ UNCHANGED <<trackerVars, dashVars, last, resp, overlap, restVars, libVars>>

NextRate == CalcCall

SpecRate == Init /\ [][NextRate]_vars

----------------------------------------------------------------------------
(* The REST client against a device that may answer anything: up to two    *)
(* calls of getWanStatuses, one after the other or overlapping.            *)

Envs == [NODE_TLS_REJECT_UNAUTHORIZED : {Undefined, <<"0">>, <<"1">>},
         SONICWALL_INSECURE_TLS : {Undefined, <<"true">>},
         SONICWALL_PASSWORD : {Undefined, <<"secret">>}]

InitAnyEnv ==
    /\ env \in Envs
    /\ rest = [c \in Calls |-> IdleCall]
    /\ served = 0

\* Challenges as devices send them, before the nonce is put in.
DigestMD5 == WwwAuth("Digest", <<"MD5">>, <<"sonicwall">>, <<"?">>, <<"op">>)
DigestSHA256 == WwwAuth("Digest", <<"SHA-256">>, <<"sonicwall">>, <<"?">>, <<>>)
DigestMD5Sess == WwwAuth("Digest", <<"MD5-sess">>, <<"sonicwall">>, <<"?">>, <<>>)
DigestPlain == WwwAuth("Digest", <<>>, <<"sonicwall">>, <<"?">>, <<>>)
DigestNoNonce == WwwAuth("Digest", <<"MD5">>, <<"sonicwall">>, <<>>, <<>>)
DigestNoRealm == WwwAuth("Digest", <<"MD5">>, <<>>, <<"?">>, <<>>)
Basic == WwwAuth("Basic", <<>>, <<"sonicwall">>, <<>>, <<>>)

HeaderLists ==
    {<<>>,
     <<DigestSHA256, DigestMD5>>, <<DigestMD5, DigestSHA256>>, <<DigestMD5>>,
     <<Basic, DigestSHA256, DigestMD5>>,
     <<DigestSHA256>>, <<DigestSHA256, Basic>>, <<DigestPlain>>,
     <<Basic>>, <<Basic, DigestSHA256>>,
     <<DigestMD5Sess, DigestMD5>>,
     <<DigestNoNonce>>, <<DigestSHA256, DigestNoRealm>>}

\* The device puts a nonce of its own making into each challenge it issues.
Nonces == << <<"n1a", "n1b", "n1c">>, <<"n2a", "n2b", "n2c">> >>
Stamp(headers, n) ==
    [k \in 1..Len(headers) |->
        IF headers[k].nonce = <<>> THEN headers[k]
        ELSE [headers[k] EXCEPT !.nonce = <<Nonces[n][k]>>]]

Cnonces == {"c0ffee"}

DeviceRecord(name, interface, link_status, status) ==
    [name |-> name, interface |-> interface, link_status |-> link_status, status |-> status]
ArrayBody == [kind |-> "array", interfaces |-> <<>>,
              items |-> <<DeviceRecord(<<"x1">>, <<>>, <<"Up">>, <<"1 Gbps Full Duplex">>),
                          DeviceRecord(<<"X3">>, <<>>, <<"Up">>, <<>>)>>]
ObjectBody == [kind |-> "object", items |-> <<>>,
               interfaces |-> << <<DeviceRecord(<<>>, <<"X2">>, <<>>, <<"No link">>)>> >>]
OtherBody == [kind |-> "object", items |-> <<>>, interfaces |-> <<>>]
NullBody == [kind |-> "null", items |-> <<>>, interfaces |-> <<>>]
TwiceBody == [kind |-> "array", interfaces |-> <<>>,
              items |-> <<DeviceRecord(<<"X1">>, <<>>, <<"Up">>, <<>>),
                          DeviceRecord(<<"x1">>, <<>>, <<"Link Down">>, <<>>)>>]
TextBody == [kind |-> "text", items |-> <<>>, interfaces |-> <<>>]

HttpResponse(status, body) == [ok |-> status \in 200..299, status |-> status, body |-> body]
AuthResponses == {HttpResponse(200, OtherBody), HttpResponse(401, OtherBody)}
StatusResponses == {HttpResponse(200, ArrayBody), HttpResponse(200, ObjectBody),
                    HttpResponse(200, OtherBody), HttpResponse(200, TextBody),
                    HttpResponse(200, NullBody), HttpResponse(200, TwiceBody),
                    HttpResponse(401, OtherBody), HttpResponse(401, TextBody)}

RestFrame == UNCHANGED <<trackerVars, dashVars, last, resp, overlap, calc, libVars>>

RestBegin ==
    /\ \E c \in Calls :
          /\ \A b \in Calls : b < c => rest[b].pc # "idle"
          /\ RestStart(c)
    /\ RestFrame

RestChallenge ==
    /\ \E c \in Calls, headers \in HeaderLists, cnonce \in Cnonces :
          /\ rest[c].pc = "awaitChallenge"
          /\ ChallengeArrives(c, Stamp(headers, served + 1), cnonce)
    /\ served' = served + 1
    /\ RestFrame

RestAuth ==
    /\ \E c \in Calls, r \in AuthResponses, cnonce \in Cnonces :
          /\ rest[c].pc = "awaitAuth"
          /\ AuthArrives(c, r.ok, r.status, cnonce)
    /\ UNCHANGED served
    /\ RestFrame

RestStatus ==
    /\ \E c \in Calls, r \in StatusResponses :
          /\ rest[c].pc = "awaitStatus"
          /\ StatusArrives(c, r)
    /\ UNCHANGED served
    /\ RestFrame

RestJson ==
    /\ \E c \in Calls :
          /\ rest[c].pc = "awaitJson"
          /\ JsonSettles(c)
    /\ UNCHANGED served
    /\ RestFrame

\* A fetch rejects: the device is unreachable, or its certificate is refused.
RestFetchFails ==
    /\ \E c \in Calls :
          /\ rest[c].pc \in {"awaitChallenge", "awaitAuth", "awaitStatus"}
          /\ Throw(c, rest[c], <<"fetch failed">>)
    /\ UNCHANGED served
    /\ RestFrame

NextRest == RestBegin \/ RestChallenge \/ RestAuth \/ RestStatus \/ RestJson \/ RestFetchFails

InitClient == InitOutsideRest /\ InitAnyEnv

SpecRest == InitClient /\ [][NextRest]_vars

----------------------------------------------------------------------------
(* The dashboard's poller: load() is called when the component mounts and  *)
(* then by setInterval every refreshIntervalMs, whether or not an earlier  *)
(* call still awaits its fetch; a fetch settles after any delay.           *)

\* load() calls made so far; the k-th timer call is due at k * refreshIntervalMs.
Issued == loads + fetching
ResponseDelayMs == 100

TimerFires ==
    /\ Issued < MaxLoads
    /\ fetching' = fetching + 1
    /\ bclock' = Issued * RefreshIntervalMs
    /\ last' = [op |-> "fetch", statuses |-> <<>>]
    /\ UNCHANGED <<trackerVars, dash, bandwidthStats, loads, resp, elsewhere>>

\* A response arrives before the timer is next due.
TimerLoadOk ==
    /\ fetching > 0
    /\ bclock + ResponseDelayMs < Issued * RefreshIntervalMs
    /\ fetching' = fetching - 1
    /\ LoadOkWith({[r |-> [ok |-> TRUE, fetchedAt |-> ToISOString(bclock + ResponseDelayMs), statuses |-> p],
                    now |-> bclock + ResponseDelayMs] : p \in DashPolls})
    /\ UNCHANGED <<trackerVars, resp>>

TimerLoadFail ==
    /\ fetching > 0
    /\ bclock + ResponseDelayMs < Issued * RefreshIntervalMs
    /\ fetching' = fetching - 1
    /\ LoadFailWith({"Request failed"}, {bclock + ResponseDelayMs})
    /\ UNCHANGED <<trackerVars, resp>>

NextTimer == TimerFires \/ TimerLoadOk \/ TimerLoadFail

SpecTimer == Init /\ [][NextTimer]_vars

----------------------------------------------------------------------------
(* Reading a pass reading by reading.                                      *)
(*                                                                         *)
(* In a step that resolves a call, the unprimed variables are the tracker  *)
(* before the pass, last'.statuses is the poll result and clock' the time  *)
(* of the pass.  PassAt(k) is the state of the pass after its first k      *)
(* readings; PassEnd is the state once the cap was applied.                *)

IsPass == last'.op = "resolve"
PassLen == Len(last'.statuses)
Reading(k) == last'.statuses[k]
PassStart == GetState(Pre, clock')
PassAt(k) ==
    ProcLoop([st |-> PassStart.g[1], heap |-> PassStart.heap, out |-> <<>>],
             SubSeq(last'.statuses, 1, k), clock')
PassEnd == CapLog(PassAt(PassLen))

MapOf(ps) == ps.heap[ps.st.ispStates]
LogOf(ps) == ps.heap[ps.st.eventLog]
CounterOf(ps) == ps.st.eventIdCounter

\* The readings account for the whole step: the pass ends in the next state.
PassIsTheStep ==
    /\ MapOf(PassEnd) = IspStates'
    /\ LogOf(PassEnd) = EventLog'
    /\ CounterOf(PassEnd) = EventIdCounter'

Resolved(up) == up # Null

\* The names a poll result mentions.
Mentioned(statuses) == {statuses[k].name : k \in 1..Len(statuses)}

----------------------------------------------------------------------------
(* C1 (as stated): the stored LinkState of an interface changes only when  *)
(* both the stored link state and the new reading are resolved and they    *)
(* differ; otherwise it stays as it was.                                   *)
C1_BothResolved ==
    [][IsPass =>
        /\ PassIsTheStep
        /\ \A k \in 1..PassLen :
             LET before == MapOf(PassAt(k - 1))
                 after  == MapOf(PassAt(k))
                 n      == Reading(k).name
             IN n \in DOMAIN before /\ after[n] # before[n]
                  => /\ Resolved(before[n].linkUp)
                     /\ Resolved(Reading(k).linkUp)
                     /\ before[n].linkUp # Reading(k).linkUp]_vars

(* C1 (amended): the stored LinkState of an interface changes only when    *)
(* the new reading is resolved and differs from the stored link state,     *)
(* which may itself be unknown; in every other case, and for every other   *)
(* interface, the stored linkUp and lastChangeTime stay as they were.      *)
C1_ChangeOnlyOnResolvedDifferent ==
    [][IsPass =>
        /\ PassIsTheStep
        /\ \A k \in 1..PassLen :
             LET before == MapOf(PassAt(k - 1))
                 after  == MapOf(PassAt(k))
                 n      == Reading(k).name
             IN /\ \A m \in DOMAIN before \ {n} : m \in DOMAIN after /\ after[m] = before[m]
                /\ n \in DOMAIN before /\ after[n] # before[n]
                     => /\ Resolved(Reading(k).linkUp)
                        /\ before[n].linkUp # Reading(k).linkUp]_vars

\* A pass has just changed the stored state of an interface first seen as
\* unknown: its only event so far carries a duration.
C1_Witness ==
    /\ last.op = "resolve"
    /\ \E n \in DOMAIN IspStates :
          /\ n \in Mentioned(last.statuses)
          /\ Resolved(IspStates[n].linkUp)
          /\ IspStates[n].lastChangeTime = ToISOString(clock)
          /\ \E i \in 1..Len(emitted) :
                /\ emitted[i].interfaceName = n
                /\ emitted[i].duration # <<>>
                /\ \A j \in 1..Len(emitted) : emitted[j].interfaceName = n => j = i

----------------------------------------------------------------------------
(* C2: an unknown reading for an interface that already has a stored       *)
(* LinkState leaves that interface's linkUp and lastChangeTime, the event  *)
(* log and the event id counter as they were.                              *)
C2_UnknownChangesNothing ==
    [][IsPass =>
        /\ PassIsTheStep
        /\ \A k \in 1..PassLen :
             LET n == Reading(k).name
             IN n \in DOMAIN MapOf(PassAt(k - 1)) /\ Reading(k).linkUp = Null
                  => /\ MapOf(PassAt(k))[n] = MapOf(PassAt(k - 1))[n]
                     /\ LogOf(PassAt(k)) = LogOf(PassAt(k - 1))
                     /\ CounterOf(PassAt(k)) = CounterOf(PassAt(k - 1))
        /\ (\A k \in 1..PassLen : Reading(k).name \in DOMAIN IspStates
                                  /\ Reading(k).linkUp = Null)
              => /\ IspStates' = IspStates
                 /\ EventLog' = EventLog
                 /\ EventIdCounter' = EventIdCounter]_vars

\* The last pass read unknown for an interface stored, with a resolved state,
\* by an earlier pass.
C2_Witness ==
    /\ last.op = "resolve"
    /\ \E k \in 1..Len(last.statuses) :
          LET n == last.statuses[k].name
          IN /\ last.statuses[k].linkUp = Null
             /\ n \in DOMAIN IspStates
             /\ Resolved(IspStates[n].linkUp)
             /\ DateParse(IspStates[n].lastChangeTime) < clock

----------------------------------------------------------------------------
(* C3: the first reading that mentions an interface creates its LinkState  *)
(* with the reading's tri-state and the poll time, and appends exactly one *)
(* event, without duration, if the reading is resolved and no event if it  *)
(* is unknown.                                                             *)
C3_FirstObservation ==
    [][IsPass =>
        /\ PassIsTheStep
        /\ \A k \in 1..PassLen :
             LET r == Reading(k)
                 n == r.name
                 b == PassAt(k - 1)
                 a == PassAt(k)
             IN n \notin DOMAIN MapOf(b)
                  => /\ n \in DOMAIN MapOf(a)
                     /\ MapOf(a)[n] = [linkUp |-> r.linkUp,
                                       lastChangeTime |-> ToISOString(clock')]
                     /\ IF Resolved(r.linkUp)
                        THEN /\ Len(LogOf(a)) = Len(LogOf(b)) + 1
                             /\ Tail(LogOf(a)) = LogOf(b)
                             /\ Head(LogOf(a)).interfaceName = n
                             /\ Head(LogOf(a)).event = EventName(r.linkUp)
                             /\ Head(LogOf(a)).timestamp = ToISOString(clock')
                             /\ Head(LogOf(a)).duration = <<>>
                             /\ CounterOf(a) = CounterOf(b) + 1
                        ELSE /\ LogOf(a) = LogOf(b)
                             /\ CounterOf(a) = CounterOf(b)]_vars

\* The last pass first observed one interface as resolved (its event heads the
\* log, without duration) and another as unknown (no event of it exists).
C3_Witness ==
    /\ last.op = "resolve"
    /\ Len(last.statuses) = 2
    /\ EventLog # <<>>
    /\ Head(EventLog).duration = <<>>
    /\ Head(EventLog).timestamp = ToISOString(clock)
    /\ Len(emitted) = 1
    /\ \E n \in DOMAIN IspStates :
          /\ IspStates[n] = [linkUp |-> Null, lastChangeTime |-> ToISOString(clock)]
          /\ n \in Mentioned(last.statuses)

----------------------------------------------------------------------------
(* C4: a resolved reading that differs from the stored resolved state      *)
(* appends exactly one event, of the new state's type and with duration =  *)
(* poll time - stored lastChangeTime, and stores the new state with        *)
(* lastChangeTime = poll time.                                             *)
C4_TransitionEvent ==
    [][IsPass =>
        /\ PassIsTheStep
        /\ \A k \in 1..PassLen :
             LET r == Reading(k)
                 n == r.name
                 b == PassAt(k - 1)
                 a == PassAt(k)
             IN (/\ n \in DOMAIN MapOf(b)
                 /\ Resolved(r.linkUp)
                 /\ Resolved(MapOf(b)[n].linkUp)
                 /\ MapOf(b)[n].linkUp # r.linkUp)
                  => /\ Len(LogOf(a)) = Len(LogOf(b)) + 1
                     /\ Tail(LogOf(a)) = LogOf(b)
                     /\ Head(LogOf(a)).interfaceName = n
                     /\ Head(LogOf(a)).event = (IF r.linkUp = "true" THEN "up" ELSE "down")
                     /\ Head(LogOf(a)).timestamp = ToISOString(clock')
                     /\ Head(LogOf(a)).duration
                          = <<clock' - DateParse(MapOf(b)[n].lastChangeTime)>>
                     /\ MapOf(a)[n] = [linkUp |-> r.linkUp,
                                       lastChangeTime |-> ToISOString(clock')]]_vars

\* An interface seen up at one time was read down by the last pass, later: the
\* head of the log is its "down" event with the elapsed time as duration.
C4_Witness ==
    /\ last.op = "resolve"
    /\ EventLog # <<>>
    /\ LET e == Head(EventLog)
       IN /\ e.event = "down"
          /\ e.timestamp = ToISOString(clock)
          /\ e.duration # <<>>
          /\ e.duration[1] > 0
          /\ e.interfaceName \in Mentioned(last.statuses)
          /\ IspStates[e.interfaceName] = [linkUp |-> "false",
                                           lastChangeTime |-> ToISOString(clock)]
          /\ \E i \in 1..Len(emitted) :
                /\ emitted[i].interfaceName = e.interfaceName
                /\ emitted[i].event = "up"
                /\ DateParse(emitted[i].timestamp) + e.duration[1] = clock

----------------------------------------------------------------------------
(* C7: a LinkState, once created, is never removed: the set of tracked     *)
(* names only grows, and an interface missing from a poll result keeps its *)
(* stored LinkState unchanged.                                             *)
C7_NeverRemoved ==
    [][/\ DOMAIN IspStates \subseteq DOMAIN IspStates'
       /\ \A n \in DOMAIN IspStates :
            n \notin Mentioned(last'.statuses) => IspStates'[n] = IspStates[n]]_vars

\* The last pass processed a poll result that mentions one interface and omits
\* another that an earlier pass had stored; both are tracked.
C7_Witness ==
    /\ last.op = "resolve"
    /\ last.statuses # <<>>
    /\ \E n \in DOMAIN IspStates :
          /\ n \notin Mentioned(last.statuses)
          /\ DateParse(IspStates[n].lastChangeTime) < clock
    /\ \E m \in DOMAIN IspStates : m \in Mentioned(last.statuses)

----------------------------------------------------------------------------
(* C5: after every completed pass the event log holds at most 100 entries, *)
(* newest first (ids strictly decreasing from head to tail), and it is     *)
(* exactly the most recent min(100, total emitted) events: overflow drops  *)
(* the oldest entries only.                                                *)
C5_LogIsNewestHundred ==
    /\ Len(EventLog) <= EventLogCap
    /\ \A i \in 1..(Len(EventLog) - 1) : EventLog[i].id > EventLog[i + 1].id
    /\ Len(EventLog) = (IF Len(emitted) < EventLogCap THEN Len(emitted) ELSE EventLogCap)
    /\ \A i \in 1..Len(EventLog) : EventLog[i] = emitted[Len(emitted) - i + 1]

\* The last pass emitted two events and overflowed the log, which had
\* overflowed before: more than one entry has been dropped.
C5_Witness ==
    /\ last.op = "resolve"
    /\ Len(last.statuses) = 2
    /\ Len(emitted) > EventLogCap + 2
    /\ Len(EventLog) = EventLogCap
    /\ Head(EventLog).timestamp = ToISOString(clock)
    /\ EventLog[2].timestamp = ToISOString(clock)

----------------------------------------------------------------------------
(* C6: event ids come from one counter that only increases: each emitted   *)
(* event's id is one more than the id of the event emitted before it (the  *)
(* first is 1), so ids are unique and never reused, also after older       *)
(* entries were dropped from the capped log.                               *)
C6_IdsCountUp ==
    /\ \A i \in 1..Len(emitted) : emitted[i].id = i
    /\ EventIdCounter = Len(emitted)
    /\ \A i, j \in 1..Len(EventLog) : i # j => EventLog[i].id # EventLog[j].id
    /\ \A i \in 1..Len(EventLog) : EventLog[i].id <= EventIdCounter

\* Entries have been dropped and the newest event's id is past the cap.
C6_Witness ==
    /\ Len(emitted) > EventLogCap
    /\ Len(EventLog) = EventLogCap
    /\ Head(EventLog).id = Len(emitted)
    /\ EventLog[EventLogCap].id = Len(emitted) - EventLogCap + 1

----------------------------------------------------------------------------
(* C9: the tracker snapshot getTrackedStatuses returns is a copy: a pass   *)
(* run after the snapshot was taken changes no LinkState value, no         *)
(* event-log entry and no ordering visible through that snapshot.          *)
C9_SnapshotIsCopy ==
    held # <<>> => View(held[1], heap) = heldView[1]

\* A caller holds a snapshot with a logged event, and a later pass has since
\* changed both the live map and the live log.
C9_Witness ==
    /\ held # <<>>
    /\ last.op = "resolve"
    /\ heldView[1].eventLog # <<>>
    /\ EventLog # heldView[1].eventLog
    /\ IspStates # heldView[1].ispStates
    /\ View(held[1], heap) = heldView[1]

----------------------------------------------------------------------------
(* C10: calculateBandwidth returns null ('unavailable') whenever fewer     *)
(* than two samples lie within the window, the time between the oldest and *)
(* the newest in-window sample is under one second, or the inbound or the  *)
(* outbound byte delta between them is negative; it never returns a        *)
(* negative rate.  Checked on the figures the dashboard computes when it   *)
(* renders a handled response, for both of its windows.                    *)
InWindow(h, w, now) == {i \in 1..Len(h) : h[i].timestamp >= now - w * MsPerSec}
OldestIn(h, I) == h[CHOOSE i \in I : \A j \in I : h[i].timestamp <= h[j].timestamp]
NewestIn(h, I) == h[CHOOSE i \in I : \A j \in I : h[i].timestamp >= h[j].timestamp]
Figure(n, w) == IF w = LongWindowSec THEN bandwidthStats[n].bw60s ELSE bandwidthStats[n].bwShort

MustBeUnavailable(h, w, now) ==
    LET I == InWindow(h, w, now)
    IN \/ Cardinality(I) < 2
       \/ NewestIn(h, I).timestamp - OldestIn(h, I).timestamp < MsPerSec
       \/ NewestIn(h, I).bytesIn < OldestIn(h, I).bytesIn
       \/ NewestIn(h, I).bytesOut < OldestIn(h, I).bytesOut

C10_UnavailableNeverNegative ==
    last.op = "loadOk" =>
        /\ DOMAIN bandwidthStats = DOMAIN dash.trafficHistory
        /\ \A n \in DOMAIN dash.trafficHistory : \A w \in {ShortWindowSec, LongWindowSec} :
             /\ MustBeUnavailable(dash.trafficHistory[n], w, bclock) => Figure(n, w) = <<>>
             /\ Figure(n, w) # <<>> =>
                   /\ Figure(n, w)[1].inBps.num >= 0
                   /\ Figure(n, w)[1].outBps.num >= 0
                   /\ Figure(n, w)[1].inBps.den > 0
                   /\ Figure(n, w)[1].outBps.den > 0

\* The dashboard has just rendered: over the long window an interface has two
\* samples a second or more apart whose inbound counter went down, and the
\* figure is unavailable; over the short window only one sample is left, and
\* that figure is unavailable too.
C10_Witness ==
    /\ last.op = "loadOk"
    /\ \E n \in DOMAIN dash.trafficHistory :
          LET h == dash.trafficHistory[n]
              L == InWindow(h, LongWindowSec, bclock)
              S == InWindow(h, ShortWindowSec, bclock)
          IN /\ Cardinality(L) >= 2
             /\ NewestIn(h, L).timestamp - OldestIn(h, L).timestamp >= MsPerSec
             /\ NewestIn(h, L).bytesIn < OldestIn(h, L).bytesIn
             /\ NewestIn(h, L).bytesOut >= OldestIn(h, L).bytesOut
             /\ Figure(n, LongWindowSec) = <<>>
             /\ Cardinality(S) < 2
             /\ Figure(n, ShortWindowSec) = <<>>

----------------------------------------------------------------------------
(* C8: if the acquisition of a poll fails, no tracked state is touched:    *)
(* getTrackedStatuses rejects without running a pass, so the LinkState     *)
(* map, the event log and the event id counter are the same before and     *)
(* after; and the dashboard's load leaves its link states and its traffic  *)
(* history unchanged on a failed response.                                 *)
C8_FailedPollTouchesNothing ==
    [][/\ last'.op = "reject" =>
            /\ g' = g
            /\ heap' = heap
            /\ IspStates' = IspStates
            /\ EventLog' = EventLog
            /\ EventIdCounter' = EventIdCounter
            /\ emitted' = emitted
            /\ resp' # <<>> /\ ~resp'[1].ok
       /\ last'.op = "loadFail" =>
            /\ dash'.ispStates = dash.ispStates
            /\ dash'.trafficHistory = dash.trafficHistory
            /\ dash'.eventLog = dash.eventLog
            /\ dash'.eventIdCounter = dash.eventIdCounter
            /\ dash'.errorMessage # <<>>]_vars

\* A poll has failed at the server and the dashboard has handled the failed
\* response, with link states, events and traffic samples stored on both sides.
C8_Witness ==
    /\ last.op = "loadFail"
    /\ dash.errorMessage = <<"Auth failed: 401">>
    /\ IspStates # EmptyObject
    /\ EventLog # <<>>
    /\ dash.ispStates # EmptyObject
    /\ dash.trafficHistory # EmptyObject
    /\ dash.eventLog # <<>>

----------------------------------------------------------------------------
\* A rate of exactly n bytes per second, and one of bytes over ms milliseconds.
IsRate(r, n) == r.num = n * r.den
IsQuotient(r, bytes, ms) == r.den = ms /\ r.num = bytes * MsPerSec

\* The samples of a call that lie within its window, and the two ends of them.
CalcIn == {k \in 1..Len(calc[1].history) :
              calc[1].history[k].timestamp >= calc[1].now - calc[1].windowSec * MsPerSec}
CalcOldest == calc[1].history[CHOOSE k \in CalcIn : \A j \in CalcIn : k <= j]
CalcNewest == calc[1].history[CHOOSE k \in CalcIn : \A j \in CalcIn : k >= j]

\* The history holds the samples (t0, 1000 bytes) and (t0 + 4 s, 5000 bytes).
CalcExample ==
    /\ calc # <<>>
    /\ Len(calc[1].history) = 2
    /\ calc[1].windowSec = 4
    /\ calc[1].history[1].bytesIn = 1000 /\ calc[1].history[1].bytesOut = 1000
    /\ calc[1].history[2].bytesIn = 5000 /\ calc[1].history[2].bytesOut = 5000
    /\ calc[1].history[2].timestamp = calc[1].history[1].timestamp + 4 * MsPerSec

\* A reported rate is the byte delta between the oldest and the newest sample
\* in the window over the seconds between them.
CalcIsDeltaOverElapsed ==
    (calc # <<>> /\ calc[1].result # <<>>) =>
        /\ Cardinality(CalcIn) >= 2
        /\ CalcNewest.timestamp > CalcOldest.timestamp
        /\ IsQuotient(calc[1].result[1].inBps, CalcNewest.bytesIn - CalcOldest.bytesIn,
                      CalcNewest.timestamp - CalcOldest.timestamp)
        /\ IsQuotient(calc[1].result[1].outBps, CalcNewest.bytesOut - CalcOldest.bytesOut,
                      CalcNewest.timestamp - CalcOldest.timestamp)

(* C11 as stated: whenever calculateBandwidth is called with a 4-second    *)
(* window on the history (t0, 1000 bytes), (t0 + 4 s, 5000 bytes), it      *)
(* reports exactly 1000 bytes/sec; and a reported rate is the byte delta   *)
(* between the oldest and newest in-window samples over the seconds        *)
(* between them.                                                           *)
C11_ExampleAtAnyTime ==
    /\ CalcExample =>
          /\ calc[1].result # <<>>
          /\ IsRate(calc[1].result[1].inBps, 1000)
    /\ CalcIsDeltaOverElapsed

(* C11: called with a 4-second window on the history (t0, 1000 bytes),     *)
(* (t0 + 4 s, 5000 bytes) at the time t0 + 4 s of the newer sample,        *)
(* calculateBandwidth reports exactly 1000 bytes/sec; called any later it  *)
(* reports no rate, the older sample having left the window.  A reported   *)
(* rate is the byte delta between the oldest and newest in-window samples  *)
(* over the seconds between them.                                          *)
C11_ExampleAtNewestSample ==
    /\ (CalcExample /\ calc[1].now = calc[1].history[2].timestamp) =>
          /\ calc[1].result # <<>>
          /\ IsRate(calc[1].result[1].inBps, 1000)
          /\ IsRate(calc[1].result[1].outBps, 1000)
    /\ (CalcExample /\ calc[1].now > calc[1].history[2].timestamp) =>
          calc[1].result = <<>>
    /\ CalcIsDeltaOverElapsed

\* The example has been evaluated at the time of its newer sample.
C11_Witness ==
    /\ CalcExample
    /\ calc[1].now = calc[1].history[2].timestamp
    /\ calc[1].result # <<>>

----------------------------------------------------------------------------
(* C12: after every traffic-history update no stored sample of any         *)
(* interface is older than 70 seconds relative to the time of that update. *)
(* (After a load that handled a response, bclock is the time of its        *)
(* update.)                                                                *)
C12_NoSampleOlderThanRetention ==
    last.op = "loadOk" =>
        \A n \in DOMAIN dash.trafficHistory :
            \A k \in 1..Len(dash.trafficHistory[n]) :
                dash.trafficHistory[n][k].timestamp >= bclock - RetentionMs

\* What the update does prune: the histories of the interfaces whose
\* counters this response carries.
C12_SampledInterfacesArePruned ==
    last.op = "loadOk" =>
        \A j \in 1..Len(last.statuses) :
            last.statuses[j].bytesIn # <<>> =>
                LET h == dash.trafficHistory[last.statuses[j].name]
                IN /\ \A k \in 1..Len(h) : h[k].timestamp >= bclock - RetentionMs
                   /\ h[Len(h)].timestamp = bclock

----------------------------------------------------------------------------
(* Reading the REST client's calls. *)

Ended == {"returned", "thrown"}
\* Call c ends in this step.
Ends(c) == rest[c].pc \notin Ended /\ rest'[c].pc \in Ended
\* The authenticated requests a call has sent.
Authenticated(c) == SelectSeq(rest[c].sent, LAMBDA q : q.authorization # <<>>)

(* C14: when a REST poll returns or throws, at whatever step, the          *)
(* process-wide TLS verification setting is what it was immediately before *)
(* the poll, whether or not relaxation is enabled and whether or not the   *)
(* setting was defined.                                                    *)
C14_TlsSettingRestored ==
    [][\A c \in Calls :
          Ends(c) => env'.NODE_TLS_REJECT_UNAUTHORIZED = rest'[c].before]_vars

\* With relaxation enabled and the setting defined beforehand, one poll has
\* returned and one has thrown after its challenge, and the setting is back.
C14_Witness ==
    /\ InsecureTls(env)
    /\ rest[1].pc = "returned" /\ rest[1].before = <<"1">>
    /\ rest[2].pc = "thrown" /\ rest[2].before = <<"1">> /\ Len(rest[2].sent) = 2
    /\ env.NODE_TLS_REJECT_UNAUTHORIZED = <<"1">>

----------------------------------------------------------------------------
\* The header of request q was built from challenge header h.
BuiltFrom(q, h) ==
    LET a == q.authorization[1]
        ch == ParseDigestChallenge(h)
    IN /\ a.nonce = Interpolate(ch, "nonce")
       /\ a.realm = Interpolate(ch, "realm")
       /\ a.qop = Interpolate(ch, "qop")
       /\ a.opaque = h.opaque
       /\ a.uri = q.uri

\* Request q carries a nonce that was issued to call b.
CarriesNonceOf(q, b) ==
    \E j \in 1..Len(rest[b].got) : rest[b].got[j].nonce = <<q.authorization[1].nonce>>

(* C13: every REST poll that returns a result has issued exactly three     *)
(* requests, in this order: a POST to the auth endpoint without            *)
(* credentials, a POST to the auth endpoint with a Digest header of        *)
(* nonce-count 00000001, a GET to the interface-status endpoint with a     *)
(* Digest header of nonce-count 00000002; both headers are built from one  *)
(* challenge received in this same poll, never from one of another poll.   *)
C13_ThreeRequestsOneChallenge ==
    \A c \in Calls :
        rest[c].pc = "returned" =>
            LET q == rest[c].sent
            IN /\ Len(q) = 3
               /\ q[1] = Request("POST", AuthUri, <<>>)
               /\ q[2].method = "POST" /\ q[2].uri = AuthUri /\ q[2].authorization # <<>>
               /\ q[2].authorization[1].nc = <<"0", "0", "0", "0", "0", "0", "0", "1">>
               /\ q[3].method = "GET" /\ q[3].uri = StatusUri /\ q[3].authorization # <<>>
               /\ q[3].authorization[1].nc = <<"0", "0", "0", "0", "0", "0", "0", "2">>
               /\ \E k \in 1..Len(rest[c].got) :
                     BuiltFrom(q[2], rest[c].got[k]) /\ BuiltFrom(q[3], rest[c].got[k])
               /\ \A b \in Calls \ {c} : ~CarriesNonceOf(q[2], b) /\ ~CarriesNonceOf(q[3], b)

\* Two polls have returned, each having answered a challenge of its own.
C13_Witness ==
    /\ \A c \in Calls : rest[c].pc = "returned" /\ Len(rest[c].got) = 2
    /\ rest[1].sent[3].authorization[1].nonce # rest[2].sent[3].authorization[1].nonce
    /\ rest[1].result # <<<<>>>>

----------------------------------------------------------------------------
\* Header h is a Digest challenge whose algorithm is MD5.
IsDigestMD5(h) == h.scheme = "Digest" /\ h.algorithm = <<"MD5">>

C15_UsesTheFirstThatHoldsMD5 ==
    \A c \in Calls :
        \A k \in 1..Len(rest[c].got) :
            (/\ IncludesAlgorithmMD5(rest[c].got[k])
             /\ \A j \in 1..(k - 1) : ~IncludesAlgorithmMD5(rest[c].got[j])
             /\ IncludesDigest(rest[c].got[k])) =>
                /\ rest[c].challenge = <<ParseDigestChallenge(rest[c].got[k])>>
                /\ \A j \in 1..Len(Authenticated(c)) : BuiltFrom(Authenticated(c)[j], rest[c].got[k])

(* C16: if none of the received challenges names the MD5 algorithm, or     *)
(* none is a Digest challenge, the poll fails before it sends any          *)
(* authenticated request.                                                  *)
C16_FailsWithoutMD5Challenge ==
    \A c \in Calls :
        (/\ rest[c].got # <<>>
         /\ \/ \A k \in 1..Len(rest[c].got) : rest[c].got[k].algorithm # <<"MD5">>
            \/ \A k \in 1..Len(rest[c].got) : rest[c].got[k].scheme # "Digest") =>
            /\ rest[c].pc = "thrown"
            /\ Authenticated(c) = <<>>

(* C17: if the selected challenge lacks a nonce or a realm directive, the  *)
(* poll fails with a challenge error and sends no authenticated request    *)
(* built from that challenge.                                              *)
C17_FailsOnMissingDirective ==
    \A c \in Calls :
        (/\ rest[c].got # <<>>
         /\ SelectChallenge(rest[c].got) # <<>>
         /\ \/ SelectChallenge(rest[c].got)[1].nonce = <<>>
            \/ SelectChallenge(rest[c].got)[1].realm = <<>>) =>
            /\ rest[c].pc = "thrown"
            /\ Authenticated(c) = <<>>

(* C18: if the authenticated request to the auth endpoint (nonce-count 1)  *)
(* returns a non-success status, the poll fails and the interface-status   *)
(* request is never sent.                                                  *)
C18_AuthFailureStopsThePoll ==
    \A c \in Calls :
        (rest[c].authResponse # <<>> /\ ~rest[c].authResponse[1].ok) =>
            /\ rest[c].pc = "thrown"
            /\ rest[c].error = << <<"Auth failed: ", rest[c].authResponse[1].status>> >>
            /\ Len(rest[c].sent) = 2
            /\ \A j \in 1..Len(rest[c].sent) : rest[c].sent[j].uri # StatusUri

\* The first authenticated request of a poll was refused, after another poll
\* went through.
C18_Witness ==
    /\ rest[1].pc = "returned"
    /\ rest[2].pc = "thrown"
    /\ rest[2].authResponse = <<[ok |-> FALSE, status |-> 401]>>

(* C19: if the authenticated interface-status request (nonce-count 2)      *)
(* returns a non-success status, the poll fails with an error rather than  *)
(* returning a result list.                                                *)
C19_StatusFailureFailsThePoll ==
    \A c \in Calls :
        (rest[c].response # <<>> /\ ~rest[c].response[1].ok /\ rest[c].pc \in Ended) =>
            /\ rest[c].pc = "thrown"
            /\ rest[c].result = <<>>

----------------------------------------------------------------------------
(* C20: the dashboard's poller never issues a new poll while a previous    *)
(* poll is still in flight: at any moment at most one poll request is      *)
(* outstanding.                                                            *)
C20_AtMostOnePollInFlight == fetching <= 1

----------------------------------------------------------------------------
(* The SNMP client's values.  A JavaScript number is an IEEE double: an    *)
(* integer is held exactly while it fits 53 significant bits and is        *)
(* rounded to the nearest such value (ties to even) beyond that.  Integers *)
(* are written here as bit sequences, most significant bit first, <<>>     *)
(* being zero, so that a 64-bit counter keeps its width.                   *)

MantissaBits == 53

\* An integer without its leading zero bits.
Strip(bits) ==
    IF \A i \in 1..Len(bits) : bits[i] = 0 THEN <<>>
    ELSE LET first == CHOOSE i \in 1..Len(bits) :
                          bits[i] = 1 /\ \A j \in 1..(i - 1) : bits[j] = 0
         IN  SubSeq(bits, first, Len(bits))

\* The bit of weight 2^k.
Bit(bits, k) == IF k < Len(bits) THEN bits[Len(bits) - k] ELSE 0

\* The carry into the bit of weight 2^k when a and b are added.
Carry(a, b, k) ==
    \E j \in 0..(k - 1) :
        /\ Bit(a, j) = 1 /\ Bit(b, j) = 1
        /\ \A m \in (j + 1)..(k - 1) : Bit(a, m) + Bit(b, m) >= 1

\* The exact sum of two integers.
Add(a, b) ==
    LET n == (IF Len(a) > Len(b) THEN Len(a) ELSE Len(b)) + 1
    IN  Strip([i \in 1..n |->
                  (Bit(a, n - i) + Bit(b, n - i)
                      + (IF Carry(a, b, n - i) THEN 1 ELSE 0)) % 2])

Zeros(n) == [i \in 1..n |-> 0]

\* The double nearest to an integer.
RoundToDouble(bits) ==
    LET b == Strip(bits)
    IN  IF Len(b) <= MantissaBits THEN b
        ELSE LET keep == SubSeq(b, 1, MantissaBits)
                 dropped == SubSeq(b, MantissaBits + 1, Len(b))
                 half == dropped[1] = 1
                 sticky == \E i \in 2..Len(dropped) : dropped[i] = 1
                 up == half /\ (sticky \/ keep[MantissaBits] = 1)
             IN  (IF up THEN Add(keep, <<1>>) ELSE keep) \o Zeros(Len(dropped))

IsDouble(bits) == RoundToDouble(bits) = bits

\* The eight bits of a byte.
ByteBits(byte) == [i \in 1..8 |-> (byte \div 2^(8 - i)) % 2]

\* A small integer as a bit sequence.
Bits(n) ==
    LET len == Cardinality({l \in 0..30 : 2^l <= n})
    IN  [i \in 1..len |-> (n \div 2^(len - i)) % 2]

\* The values a varbind can carry.
Num(bits) == [type |-> "number", bits |-> bits, bytes |-> <<>>, text |-> <<>>]
Big(bits) == [type |-> "bigint", bits |-> bits, bytes |-> <<>>, text |-> <<>>]
Buf(bytes) == [type |-> "buffer", bits |-> <<>>, bytes |-> bytes, text |-> <<>>]
Str(text) == [type |-> "string", bits |-> <<>>, bytes |-> <<>>, text |-> text]
NullValue == [type |-> "null", bits |-> <<>>, bytes |-> <<>>, text |-> <<>>]

\* result = result * 256 + value[i], each operation rounded to a double.
RECURSIVE FromBytes(_, _)
FromBytes(result, bytes) ==
    IF bytes = <<>> THEN result
    ELSE CHOOSE final \in
             {FromBytes(next, tail) :
                 next \in {RoundToDouble(Add(RoundToDouble(result \o Zeros(8)),
                                             Strip(ByteBits(bytes[1]))))},
                 tail \in {Tail(bytes)}} : TRUE

toNumber(value) ==
    CASE value.type = "number" -> value.bits
      [] value.type = "bigint" -> RoundToDouble(value.bits)
      [] value.type = "buffer" -> FromBytes(<<>>, value.bytes)
      [] OTHER -> <<>>

(* The calls of toNumber.                                                  *)
SmallBytes == {0, 1, 255}
WideBytes ==
    {<<h, 0, 0, 0, 0, 0, m, l>> : h \in {0, 32, 128}, m \in {0, 4}, l \in {0, 1}}
ByteSequences ==
    {<<>>} \cup {<<a>> : a \in SmallBytes}
           \cup {<<a, b>> : a \in SmallBytes, b \in SmallBytes}
           \cup {<<a, b, c, d>> : a \in SmallBytes, b \in SmallBytes,
                                  c \in SmallBytes, d \in SmallBytes}
           \cup WideBytes

\* The base-256 big-endian unsigned integer a byte sequence writes, exactly.
RECURSIVE Concat(_)
Concat(bytes) ==
    IF bytes = <<>> THEN <<>> ELSE ByteBits(bytes[1]) \o Concat(Tail(bytes))
Base256(bytes) == Strip(Concat(bytes))

CounterValues ==
    {Buf(bytes) : bytes \in ByteSequences}
        \cup {Big(Base256(bytes)) : bytes \in ByteSequences}
        \cup {Num(RoundToDouble(Base256(bytes))) : bytes \in ByteSequences}
        \cup {NullValue, Str(<<"7">>)}

ToNumberCall ==
    /\ \E value \in CounterValues :
          conv' = <<[value |-> value, result |-> toNumber(value)]>>
    /\ UNCHANGED <<trackerVars, dashVars, last, resp, overlap, calc, restVars,
                   snmp, facade, digest>>

NextNumber == ToNumberCall

SpecNumber == Init /\ [][NextNumber]_vars

(* C29: toNumber decodes a byte sequence as a base-256 big-endian unsigned *)
(* integer and maps a native number and a bigint to the same numeric       *)
(* value, so that the three encodings of one counter value coerce to one   *)
(* result.                                                                 *)
C29_ThreeEncodingsOneResult ==
    (conv # <<>> /\ conv[1].value.type = "buffer") =>
        LET counter == Base256(conv[1].value.bytes)
        IN  /\ conv[1].result = counter
            /\ toNumber(Big(counter)) = conv[1].result
            /\ IsDouble(counter) => toNumber(Num(counter)) = conv[1].result

\* The same, for the counters that fit the 53 bits of a double.
C29_ExactWithinMantissa ==
    (conv # <<>> /\ conv[1].value.type = "buffer"
                 /\ Len(Base256(conv[1].value.bytes)) <= MantissaBits) =>
        LET counter == Base256(conv[1].value.bytes)
        IN  /\ conv[1].result = counter
            /\ toNumber(Big(counter)) = counter
            /\ toNumber(Num(counter)) = counter

\* 0x00 0x00 0x01 0x00 has been decoded, to 256.
C29_Example ==
    /\ conv # <<>>
    /\ conv[1].value = Buf(<<0, 0, 1, 0>>)
    /\ conv[1].result = Bits(256)

\* 0x80 00 00 00 00 00 04 01 has been decoded: the bytes give 2^63, the
\* bigint of the same counter gives 2^63 + 2048.
C29_EncodingsDiverge ==
    /\ conv # <<>>
    /\ conv[1].value = Buf(<<128, 0, 0, 0, 0, 0, 4, 1>>)
    /\ conv[1].result = <<1>> \o Zeros(63)
    /\ toNumber(Big(Base256(conv[1].value.bytes))) = <<1>> \o Zeros(51) \o <<1>> \o Zeros(11)

----------------------------------------------------------------------------
(* buildDigestHeader on its own: two calls side by side, each with its     *)
(* own arguments and its own draw of the client nonce.                     *)

DigestChallenges ==
    {ParseDigestChallenge([scheme |-> "Digest", algorithm |-> <<"MD5">>,
                           realm |-> <<realm>>, nonce |-> <<nonce>>,
                           qop |-> qop, opaque |-> opaque]) :
        realm \in {"sonicwall", "fw"}, nonce \in {"n1", "n2"},
        qop \in {<<"auth">>, <<>>}, opaque \in {<<"op">>, <<>>}}

DigestRequests == {<<"POST", AuthUri>>, <<"GET", StatusUri>>}
DigestUsers == {"admin", "monitor"}
DigestPasswords == {"secret", "hunter2"}
DigestCounts == {1, 2}
DigestCnonces == {"c0ffee", "decade"}

DigestCalls ==
    {[method |-> rq[1], uri |-> rq[2], username |-> u, password |-> p,
      challenge |-> ch, nc |-> nc, cnonce |-> cn,
      header |-> BuildDigestHeader(rq[1], rq[2], u, p, ch, nc, cn)] :
        rq \in DigestRequests, u \in DigestUsers, p \in DigestPasswords,
        ch \in DigestChallenges, nc \in DigestCounts, cn \in DigestCnonces}

BuildTwoHeaders ==
    /\ digest = <<>>
    /\ \E first \in DigestCalls, second \in DigestCalls :
          digest' = <<first, second>>
    /\ UNCHANGED <<trackerVars, dashVars, last, resp, overlap, calc, restVars,
                   snmp, facade, conv>>

NextDigest == BuildTwoHeaders

SpecDigest == Init /\ [][NextDigest]_vars

\* The two calls were given the same username, realm, password, method,
\* URI, nonce, nonce-count and client nonce.
SameEightValues ==
    /\ digest[1].username = digest[2].username
    /\ Interpolate(digest[1].challenge, "realm") = Interpolate(digest[2].challenge, "realm")
    /\ digest[1].password = digest[2].password
    /\ digest[1].method = digest[2].method
    /\ digest[1].uri = digest[2].uri
    /\ Interpolate(digest[1].challenge, "nonce") = Interpolate(digest[2].challenge, "nonce")
    /\ digest[1].nc = digest[2].nc
    /\ digest[1].cnonce = digest[2].cnonce

SameQop ==
    Interpolate(digest[1].challenge, "qop") = Interpolate(digest[2].challenge, "qop")

(* C30: the Digest response is a function of the username, realm,          *)
(* password, method, URI, nonce, nonce-count and client nonce only: two    *)
(* computations that agree on these eight values give the same response.   *)
C30_FunctionOfEightValues ==
    (digest # <<>> /\ SameEightValues) =>
        digest[1].header.response = digest[2].header.response

(* C30, with the ninth value: two computations that agree on the eight     *)
(* values and on the challenge's qop give the same response.               *)
C30_FunctionOfEightValuesAndQop ==
    (digest # <<>> /\ SameEightValues /\ SameQop) =>
        digest[1].header.response = digest[2].header.response

\* Two challenges that differ in their opaque directive only gave the same
\* response.
C30_Witness ==
    /\ digest # <<>>
    /\ SameEightValues /\ SameQop
    /\ digest[1].challenge # digest[2].challenge
    /\ digest[1].header.response = digest[2].header.response

----------------------------------------------------------------------------
(* The SNMP client: getWanStatusesViaSNMP.  An OID is its sequence of      *)
(* numbers, a text its sequence of characters, a varbind an OID with the   *)
(* value the device returned for it.                                       *)

OID ==
    [ifDescr        |-> <<1, 3, 6, 1, 2, 1, 2, 2, 1, 2>>,
     ifOperStatus   |-> <<1, 3, 6, 1, 2, 1, 2, 2, 1, 8>>,
     ifSpeed        |-> <<1, 3, 6, 1, 2, 1, 2, 2, 1, 5>>,
     ifPhysAddress  |-> <<1, 3, 6, 1, 2, 1, 2, 2, 1, 6>>,
     ifMtu          |-> <<1, 3, 6, 1, 2, 1, 2, 2, 1, 4>>,
     ifLastChange   |-> <<1, 3, 6, 1, 2, 1, 2, 2, 1, 9>>,
     ifInErrors     |-> <<1, 3, 6, 1, 2, 1, 2, 2, 1, 14>>,
     ifOutErrors    |-> <<1, 3, 6, 1, 2, 1, 2, 2, 1, 20>>,
     ifInUcastPkts  |-> <<1, 3, 6, 1, 2, 1, 2, 2, 1, 11>>,
     ifOutUcastPkts |-> <<1, 3, 6, 1, 2, 1, 2, 2, 1, 17>>,
     ifHCInOctets   |-> <<1, 3, 6, 1, 2, 1, 31, 1, 1, 1, 6>>,
     ifHCOutOctets  |-> <<1, 3, 6, 1, 2, 1, 31, 1, 1, 1, 10>>,
     ipAdEntIfIndex |-> <<1, 3, 6, 1, 2, 1, 4, 20, 1, 2>>,
     ipAdEntAddr    |-> <<1, 3, 6, 1, 2, 1, 4, 20, 1, 1>>,
     ipAdEntNetMask |-> <<1, 3, 6, 1, 2, 1, 4, 20, 1, 3>>]

Varbind(oid, value) == [oid |-> oid, value |-> value]

Front(seq) == SubSeq(seq, 1, Len(seq) - 1)

\* parseInt(vb.oid.split(".").pop() || "0", 10)
LastComponent(oid) == IF oid = <<>> THEN 0 ELSE oid[Len(oid)]

\* A number that fits 31 bits, as an integer.
RECURSIVE IntOf(_)
IntOf(bits) ==
    IF Len(bits) = 0 THEN 0
    ELSE IF Len(bits) = 1 THEN bits[1]
    ELSE LET low == Len(bits) \div 2
         IN  IntOf(SubSeq(bits, 1, Len(bits) - low)) * 2^low
                 + IntOf(SubSeq(bits, Len(bits) - low + 1, Len(bits)))

Digits == {"0", "1", "2", "3", "4", "5", "6", "7", "8", "9"}

\* fullName.match(/^(X\d+)/i): <<>> when there is no match, else <<match[1]>>,
\* the X or x and the longest run of digits behind it.
Match(fullName) ==
    IF Len(fullName) < 2 \/ fullName[1] \notin {"X", "x"} \/ fullName[2] \notin Digits
    THEN <<>>
    ELSE LET ends == {k \in 2..Len(fullName) :
                         /\ \A j \in 2..k : fullName[j] \in Digits
                         /\ (k = Len(fullName) \/ fullName[k + 1] \notin Digits)}
         IN  <<SubSeq(fullName, 1, CHOOSE k \in ends : TRUE)>>

\* toUpperCase of a text of this alphabet.
UpperCase(text) == [i \in 1..Len(text) |-> IF text[i] = "x" THEN "X" ELSE text[i]]

\* getEnv("SONICWALL_WAN_INTERFACES", "X1,X2").split(",").map(trim, toUpperCase)
wanted == <<UpperCase(<<"X", "1">>), UpperCase(<<"X", "2">>)>>
Includes(list, x) == \E i \in 1..Len(list) : list[i] = x

\* The name of a record, as the string the rest of the program knows it by.
NameString(text) ==
    IF text = <<"X", "1">> THEN "X1" ELSE IF text = <<"X", "2">> THEN "X2" ELSE "X?"

\* A Record<string, number> whose keys are no integers: the properties in
\* insertion order, an assignment to an existing key changing its value in
\* place.
Keys(obj) == [i \in 1..Len(obj) |-> obj[i].key]
Values(obj) == [i \in 1..Len(obj) |-> obj[i].value]
HasKey(obj, key) == \E i \in 1..Len(obj) : obj[i].key = key
Get(obj, key) == obj[CHOOSE i \in 1..Len(obj) : obj[i].key = key].value
Assign(obj, key, value) ==
    IF HasKey(obj, key)
    THEN [i \in 1..Len(obj) |-> IF obj[i].key = key THEN [key |-> key, value |-> value]
                                ELSE obj[i]]
    ELSE Append(obj, [key |-> key, value |-> value])

\* Lines 181-193: the loop over the ifDescr varbinds.
RECURSIVE BuildIfIndexMap(_, _)
BuildIfIndexMap(ifIndexMap, ifDescrResults) ==
    IF ifDescrResults = <<>> THEN ifIndexMap
    ELSE LET vb == ifDescrResults[1]
             match == Match(vb.value.text)
             name == UpperCase(match[1])
             index == LastComponent(vb.oid)
         IN  BuildIfIndexMap(
                 IF vb.value.type # "null" /\ match # <<>> /\ Includes(wanted, name)
                 THEN Assign(ifIndexMap, name, index)
                 ELSE ifIndexMap,
                 Tail(ifDescrResults))

\* results[i]?.value
ValueAt(results, i) == IF i \in 1..Len(results) THEN results[i].value ELSE NullValue

\* value?.toString() || ""
TextOf(value) == IF value.type = "string" THEN value.text ELSE <<>>

\* Lines 204-212: the three IP walks, correlated by position.
RECURSIVE BuildIpByIfIndex(_, _, _, _, _)
BuildIpByIfIndex(ipByIfIndex, i, ipAddrResults, ipIndexResults, ipMaskResults) ==
    IF i > Len(ipAddrResults) THEN ipByIfIndex
    ELSE LET ifIndex == ValueAt(ipIndexResults, i)
             ip == TextOf(ValueAt(ipAddrResults, i))
             mask == TextOf(ValueAt(ipMaskResults, i))
         IN  BuildIpByIfIndex(
                 IF ifIndex.type = "number" /\ ifIndex.bits # <<>> /\ ip # <<>>
                 THEN Assign(ipByIfIndex, IntOf(ifIndex.bits), [ip |-> ip, mask |-> mask])
                 ELSE ipByIfIndex,
                 i + 1, ipAddrResults, ipIndexResults, ipMaskResults)

\* Lines 216-240: the eleven groups of OIDs, in the order of allOids.
Groups ==
    <<OID.ifOperStatus, OID.ifSpeed, OID.ifPhysAddress, OID.ifMtu, OID.ifLastChange,
      OID.ifHCInOctets, OID.ifHCOutOctets, OID.ifInUcastPkts, OID.ifOutUcastPkts,
      OID.ifInErrors, OID.ifOutErrors>>

AllOids(indices) ==
    LET n == Len(indices)
    IN  [k \in 1..(Len(Groups) * n) |->
            Append(Groups[((k - 1) \div n) + 1], indices[((k - 1) % n) + 1])]

\* results.slice(from, to)
Slice(results, from, to) ==
    LET a == IF from > Len(results) THEN Len(results) ELSE from
        b == IF to > Len(results) THEN Len(results) ELSE to
    IN  IF b <= a THEN <<>> ELSE SubSeq(results, a + 1, b)

\* The group-th slice of the results.  (First the variant that reads the
\* results interface by interface.)
GroupValue_Interleaved(results, n, group, i) ==
    ValueAt(results, (i - 1) * Len(Groups) + group)
GroupValue(results, n, group, i) ==
    ValueAt(Slice(results, n * (group - 1), n * group), i)

\* (bps / unit).toFixed(0)
ToFixed0(bps, unit) == (bps + (unit \div 2)) \div unit

formatSpeed(bps) ==
    IF bps >= 1000000000 THEN [value |-> ToFixed0(bps, 1000000000), unit |-> "Gbps"]
    ELSE IF bps >= 1000000 THEN [value |-> ToFixed0(bps, 1000000), unit |-> "Mbps"]
    ELSE IF bps >= 1000 THEN [value |-> ToFixed0(bps, 1000), unit |-> "Kbps"]
    ELSE [value |-> bps, unit |-> "bps"]

UpperHexDigit(d) ==
    <<"0", "1", "2", "3", "4", "5", "6", "7", "8", "9", "A", "B", "C", "D", "E", "F">>[d + 1]

\* The bytes as two hexadecimal digits each, in upper case, joined by ":".
formatMac(buffer) ==
    [i \in 1..Len(buffer) |->
        <<UpperHexDigit(buffer[i] \div 16), UpperHexDigit(buffer[i] % 16)>>]

\* Lines 262-298: the record of the i-th name.
SnmpStatus(i, names, ifIndexMap, ipByIfIndex, results) ==
    LET n == Len(Values(ifIndexMap))
        name == names[i]
        ifIndex == Get(ifIndexMap, name)
    IN  CHOOSE status \in
            {[name |-> NameString(name),
              linkUp |-> IF own[1] = Num(Bits(1)) THEN "true"
                         ELSE IF own[1] = Num(Bits(2)) THEN "false" ELSE Null,
              ipAddress |-> IF HasKey(ipByIfIndex, ifIndex) /\ Get(ipByIfIndex, ifIndex).ip # <<>>
                            THEN <<Get(ipByIfIndex, ifIndex).ip>> ELSE <<>>,
              subnetMask |-> IF HasKey(ipByIfIndex, ifIndex) /\ Get(ipByIfIndex, ifIndex).mask # <<>>
                             THEN <<Get(ipByIfIndex, ifIndex).mask>> ELSE <<>>,
              linkSpeed |-> IF own[2].type = "number" /\ own[2].bits # <<>>
                            THEN <<formatSpeed(IntOf(own[2].bits))>> ELSE <<>>,
              ipMode |-> Null,
              zone |-> "WAN",
              comment |-> Null,
              macAddress |-> IF own[3].type = "buffer" THEN <<formatMac(own[3].bytes)>>
                             ELSE <<>>,
              mtu |-> own[4],
              lastChange |-> own[5],
              bytesIn |-> toNumber(own[6]),
              bytesOut |-> toNumber(own[7]),
              packetsIn |-> toNumber(own[8]),
              packetsOut |-> toNumber(own[9]),
              errorsIn |-> toNumber(own[10]),
              errorsOut |-> toNumber(own[11])] :
                \* statusResults[i]?.value, speedResults[i]?.value, ...
                own \in {[group \in 1..Len(Groups) |-> GroupValue(results, n, group, i)]}} :
            TRUE

SnmpStatuses(ifIndexMap, ipByIfIndex, results) ==
    LET names == Keys(ifIndexMap)
    IN  [i \in 1..Len(names) |-> SnmpStatus(i, names, ifIndexMap, ipByIfIndex, results)]

(* What the device can answer.                                             *)

\* ifDescr walks: the descriptions by table index.
IfDescrWalks ==
    {<<>>,
     <<Varbind(Append(OID.ifDescr, 1), Str(<<"X", "0">>)),
       Varbind(Append(OID.ifDescr, 2), Str(<<"X", "1">>)),
       Varbind(Append(OID.ifDescr, 3), Str(<<"X", "2">>))>>,
     <<Varbind(Append(OID.ifDescr, 2), Str(<<"x", "1", " ", "w", "a", "n">>)),
       Varbind(Append(OID.ifDescr, 5), Str(<<"U", "0">>))>>,
     <<Varbind(Append(OID.ifDescr, 2), Str(<<"X", "1">>)),
       Varbind(Append(OID.ifDescr, 3), Str(<<"X", "2">>)),
       Varbind(Append(OID.ifDescr, 7), Str(<<"X", "1", ":", "V", "1", "0">>))>>,
     <<Varbind(Append(OID.ifDescr, 3), Str(<<"X", "2">>)),
       Varbind(Append(OID.ifDescr, 2), Str(<<"X", "1">>))>>,
     <<Varbind(Append(OID.ifDescr, 1), Str(<<"X", "0">>)),
       Varbind(Append(OID.ifDescr, 5), Str(<<"U", "0">>)),
       Varbind(Append(OID.ifDescr, 9), Str(<<"X", "1", "0">>))>>,
     <<Varbind(Append(OID.ifDescr, 2), NullValue),
       Varbind(Append(OID.ifDescr, 3), Str(<<"X", "2">>))>>}

\* The rows of the IP address table.
IpRow(column, n) == Varbind(column \o <<203, 0, 113, n>>, NullValue)
IpAddrWalks ==
    {<<>>,
     <<[IpRow(OID.ipAdEntAddr, 2) EXCEPT !.value = Str(<<"203.0.113.2">>)],
       [IpRow(OID.ipAdEntAddr, 3) EXCEPT !.value = Str(<<"203.0.113.3">>)]>>}
IpIndexWalks ==
    {<<[IpRow(OID.ipAdEntIfIndex, 2) EXCEPT !.value = Num(Bits(2))],
       [IpRow(OID.ipAdEntIfIndex, 3) EXCEPT !.value = Num(Bits(3))]>>,
     <<[IpRow(OID.ipAdEntIfIndex, 3) EXCEPT !.value = Num(Bits(3))]>>}
IpMaskWalks ==
    {<<[IpRow(OID.ipAdEntNetMask, 2) EXCEPT !.value = Str(<<"255.255.255.0">>)],
       [IpRow(OID.ipAdEntNetMask, 3) EXCEPT !.value = Str(<<"255.255.255.252">>)]>>,
     <<[IpRow(OID.ipAdEntNetMask, 2) EXCEPT !.value = Str(<<"255.255.255.0">>)]>>}

\* The interface table of a device: the value it returns for an OID.
Devices == {"healthy", "degraded"}
DeviceValue(device, oid) ==
    LET column == Front(oid)
        index == LastComponent(oid)
    IN  IF device = "healthy"
        THEN CASE column = OID.ifOperStatus -> Num(Bits(1))
               [] column = OID.ifSpeed -> Num(Bits(1000000000))
               [] column = OID.ifPhysAddress -> Buf(<<0, 23, 197, 10, 11, index>>)
               [] column = OID.ifMtu -> Num(Bits(1500))
               [] column = OID.ifLastChange -> Num(Bits(100 * index))
               [] column = OID.ifHCInOctets -> Buf(<<index, 17>>)
               [] column = OID.ifHCOutOctets -> Big(Bits(5000 + index))
               [] column = OID.ifInUcastPkts -> Num(Bits(70 + index))
               [] column = OID.ifOutUcastPkts -> Num(Bits(80 + index))
               [] column = OID.ifInErrors -> Num(Bits(index))
               [] OTHER -> Num(Bits(0))
        ELSE CASE column = OID.ifOperStatus -> IF index = 2 THEN Num(Bits(2)) ELSE Num(Bits(7))
               [] column = OID.ifSpeed -> IF index = 2 THEN Num(Bits(0)) ELSE Num(Bits(1500000))
               [] column = OID.ifMtu -> Num(Bits(1400 + index))
               [] column = OID.ifLastChange -> Num(Bits(index))
               [] column = OID.ifInUcastPkts -> Num(Bits(index))
               [] OTHER -> NullValue

\* session.get: one varbind for each OID of the request, in its order.
GetResponse(device, oids) ==
    [k \in 1..Len(oids) |-> Varbind(oids[k], DeviceValue(device, oids[k]))]

TransportErrors == {<<"RequestTimedOutError">>, <<"RequestFailedError">>}

(* The steps of getWanStatusesViaSNMP, from one await to the next.         *)

\* snmpWalk(session, oid) and snmpGet(session, oids), as the session saw them.
Issue(s, kind, oids) ==
    Append(s.requests, [kind |-> kind, oids |-> oids, session |-> s.session])

\* finally { session.close() }
\* (First the variant that closes the session after a return only.)
SnmpFinally_OnlyOnReturn(s, pc) ==
    IF pc = "thrown" THEN [s EXCEPT !.pc = pc]
    ELSE [s EXCEPT !.pc = pc, !.session = "closed", !.closes = @ + 1]
SnmpFinally(s, pc) ==
    [s EXCEPT !.pc = pc, !.session = "closed", !.closes = @ + 1]

SnmpThrow(s, message) == SnmpFinally([s EXCEPT !.error = <<message>>], "thrown")

\* Lines 164-178.
SnmpStart ==
    /\ snmp.pc = "idle"
    /\ snmp' = LET s == [snmp EXCEPT !.session = "open"]
               IN  [s EXCEPT !.pc = "walkIfDescr",
                             !.requests = Issue(s, "walk", <<OID.ifDescr>>)]

\* Lines 178-200.
\* (First the variant that goes on without a matching interface.)
IfDescrArrives_NoCheck(varbinds) ==
    /\ snmp.pc = "walkIfDescr"
    /\ LET s == [snmp EXCEPT !.ifDescrResults = <<varbinds>>, !.answers = @ + 1,
                             !.ifIndexMap = BuildIfIndexMap(<<>>, varbinds)]
       IN  snmp' = [s EXCEPT !.pc = "walkIpAddr",
                             !.requests = Issue(s, "walk", <<OID.ipAdEntAddr>>)]
IfDescrArrives(varbinds) ==
    /\ snmp.pc = "walkIfDescr"
    /\ LET s == [snmp EXCEPT !.ifDescrResults = <<varbinds>>, !.answers = @ + 1,
                             !.ifIndexMap = BuildIfIndexMap(<<>>, varbinds)]
       IN  IF Len(Keys(s.ifIndexMap)) = 0
           THEN snmp' = SnmpThrow(s, <<"No matching interfaces found for: ", wanted>>)
           ELSE snmp' = [s EXCEPT !.pc = "walkIpAddr",
                                  !.requests = Issue(s, "walk", <<OID.ipAdEntAddr>>)]

\* Lines 200-201.
IpAddrArrives(varbinds) ==
    /\ snmp.pc = "walkIpAddr"
    /\ snmp' = [snmp EXCEPT !.pc = "walkIpIndex", !.ipAddrResults = varbinds,
                            !.answers = @ + 1,
                            !.requests = Issue(snmp, "walk", <<OID.ipAdEntIfIndex>>)]

\* Lines 201-202.
IpIndexArrives(varbinds) ==
    /\ snmp.pc = "walkIpIndex"
    /\ snmp' = [snmp EXCEPT !.pc = "walkIpMask", !.ipIndexResults = varbinds,
                            !.answers = @ + 1,
                            !.requests = Issue(snmp, "walk", <<OID.ipAdEntNetMask>>)]

\* Lines 202-242.
IpMaskArrives(varbinds) ==
    /\ snmp.pc = "walkIpMask"
    /\ LET allOids == AllOids(Values(snmp.ifIndexMap))
       IN  snmp' = [snmp EXCEPT
                       !.pc = "get",
                       !.answers = @ + 1,
                       !.ipByIfIndex = BuildIpByIfIndex(<<>>, 1, snmp.ipAddrResults,
                                                        snmp.ipIndexResults, varbinds),
                       !.allOids = allOids,
                       !.requests = Issue(snmp, "get", allOids)]

\* Lines 242-304.
GetArrives(results) ==
    /\ snmp.pc = "get"
    /\ snmp' = SnmpFinally(
                   [snmp EXCEPT !.results = results, !.answers = @ + 1,
                                !.result = <<SnmpStatuses(snmp.ifIndexMap, snmp.ipByIfIndex,
                                                          results)>>],
                   "returned")

\* An await of a walk or of the GET rejects: the error leaves through finally.
SnmpAwaiting == {"walkIfDescr", "walkIpAddr", "walkIpIndex", "walkIpMask", "get"}
\* (First the variant that catches the error and returns what it has.)
RequestFails_Swallowed(err) ==
    /\ snmp.pc \in SnmpAwaiting
    /\ snmp' = SnmpFinally(
                   [snmp EXCEPT !.error = <<err>>,
                                !.result = <<SnmpStatuses(snmp.ifIndexMap, snmp.ipByIfIndex,
                                                          <<>>)>>],
                   "returned")
RequestFails(err) ==
    /\ snmp.pc \in SnmpAwaiting
    /\ snmp' = SnmpThrow(snmp, err)

SnmpFrame ==
    UNCHANGED <<trackerVars, dashVars, last, resp, overlap, calc, restVars, facade, conv, digest>>

SnmpBegin == SnmpStart /\ SnmpFrame
SnmpIfDescr == (\E varbinds \in IfDescrWalks : IfDescrArrives(varbinds)) /\ SnmpFrame
SnmpIpAddr == (\E varbinds \in IpAddrWalks : IpAddrArrives(varbinds)) /\ SnmpFrame
SnmpIpIndex == (\E varbinds \in IpIndexWalks : IpIndexArrives(varbinds)) /\ SnmpFrame
SnmpIpMask == (\E varbinds \in IpMaskWalks : IpMaskArrives(varbinds)) /\ SnmpFrame
SnmpGet ==
    /\ \E device \in Devices :
          \E results \in {GetResponse(device, snmp.allOids)} : GetArrives(results)
    /\ SnmpFrame
SnmpFails == (\E err \in TransportErrors : RequestFails(err)) /\ SnmpFrame

NextSnmp ==
    \/ SnmpBegin \/ SnmpIfDescr \/ SnmpIpAddr \/ SnmpIpIndex \/ SnmpIpMask
    \/ SnmpGet \/ SnmpFails

SpecSnmp == Init /\ [][NextSnmp]_vars

----------------------------------------------------------------------------
SnmpEnded == {"returned", "thrown"}

\* A description names a wanted interface: it begins, in either case, with
\* the name, and no digit follows.
NamesWanted(text) ==
    \E i \in 1..Len(wanted) :
        /\ Len(text) >= Len(wanted[i])
        /\ UpperCase(SubSeq(text, 1, Len(wanted[i]))) = wanted[i]
        /\ (Len(text) = Len(wanted[i]) \/ text[Len(wanted[i]) + 1] \notin Digits)

YieldsNoWantedName(varbinds) ==
    \A k \in 1..Len(varbinds) :
        varbinds[k].value.type = "null" \/ ~NamesWanted(varbinds[k].value.text)

(* C23: getWanStatusesViaSNMP closes its SNMP session exactly once on      *)
(* every exit path, and issues no SNMP request after the close.            *)
C23_SessionClosedOnce ==
    /\ snmp.pc \in SnmpEnded => (snmp.closes = 1 /\ snmp.session = "closed")
    /\ snmp.pc \notin SnmpEnded => snmp.closes = 0
    /\ \A k \in 1..Len(snmp.requests) : snmp.requests[k].session = "open"

\* The batched GET was rejected: the call has thrown after five requests.
C23_Witness ==
    /\ snmp.pc = "thrown"
    /\ Len(snmp.requests) = 5
    /\ snmp.closes = 1

(* C24: if the ifDescr walk yields no wanted name, the SNMP poll fails     *)
(* with an error and issues no IP-table walk and no batched GET.           *)
C24_NoMatchNoFurtherRequest ==
    (snmp.ifDescrResults # <<>> /\ YieldsNoWantedName(snmp.ifDescrResults[1])) =>
        /\ snmp.pc = "thrown"
        /\ snmp.error = << <<"No matching interfaces found for: ", wanted>> >>
        /\ snmp.result = <<>>
        /\ Len(snmp.requests) = 1
        /\ snmp.requests[1].oids = <<OID.ifDescr>>

\* The walk answered with X0, U0 and X10: none of them is X1 or X2.
C24_Witness ==
    /\ snmp.ifDescrResults # <<>>
    /\ Len(snmp.ifDescrResults[1]) = 3
    /\ YieldsNoWantedName(snmp.ifDescrResults[1])
    /\ snmp.pc = "thrown"

\* The value the device returned for an OID.
ReturnedFor(results, oid) ==
    results[CHOOSE k \in 1..Len(results) : results[k].oid = oid].value

(* C27: with n resolved interfaces the SNMP client requests 11*n OIDs in   *)
(* one GET and fills record i from the response positions i, n+i, ...,     *)
(* 10n+i, each the value of the OID requested for that interface's table   *)
(* index: no record receives a value fetched for another interface's       *)
(* index, also when a wanted name matched more than one description.       *)
C27_RecordFromItsOwnIndex ==
    snmp.pc = "returned" =>
        LET names == Keys(snmp.ifIndexMap)
            n == Len(names)
            gets == {k \in 1..Len(snmp.requests) : snmp.requests[k].kind = "get"}
            results == snmp.results
        IN  /\ Cardinality(gets) = 1
            /\ \A k \in gets : snmp.requests[k].oids = snmp.allOids
            /\ Len(snmp.allOids) = 11 * n
            /\ Len(snmp.result[1]) = n
            /\ \A i \in 1..n :
                  \A index \in {Get(snmp.ifIndexMap, names[i])} :
                  \A own \in {[column \in DOMAIN OID |->
                                  IF \E k \in 1..Len(results) :
                                         results[k].oid = Append(OID[column], index)
                                  THEN ReturnedFor(results, Append(OID[column], index))
                                  ELSE NullValue]} :
                  LET record == snmp.result[1][i]
                  IN  /\ \A group \in 1..11 :
                             /\ snmp.allOids[(group - 1) * n + i] = Append(Groups[group], index)
                             /\ results[(group - 1) * n + i].oid = Append(Groups[group], index)
                      /\ record.name = NameString(names[i])
                      /\ record.linkUp = "true" <=> own.ifOperStatus = Num(Bits(1))
                      /\ record.linkUp = "false" <=> own.ifOperStatus = Num(Bits(2))
                      /\ record.linkSpeed # <<>> =>
                             record.linkSpeed = <<formatSpeed(IntOf(own.ifSpeed.bits))>>
                      /\ record.macAddress # <<>> =>
                             record.macAddress = <<formatMac(own.ifPhysAddress.bytes)>>
                      /\ record.mtu = own.ifMtu
                      /\ record.lastChange = own.ifLastChange
                      /\ record.bytesIn = toNumber(own.ifHCInOctets)
                      /\ record.bytesOut = toNumber(own.ifHCOutOctets)
                      /\ record.packetsIn = toNumber(own.ifInUcastPkts)
                      /\ record.packetsOut = toNumber(own.ifOutUcastPkts)
                      /\ record.errorsIn = toNumber(own.ifInErrors)
                      /\ record.errorsOut = toNumber(own.ifOutErrors)

\* X1 matched the descriptions at the indices 2 and 7, X2 the one at 3: the
\* records are those of the indices 7 and 3.
C27_Witness ==
    /\ snmp.pc = "returned"
    /\ Len(snmp.ifDescrResults[1]) = 3
    /\ Values(snmp.ifIndexMap) = <<7, 3>>
    /\ snmp.result[1][1].name = "X1"
    /\ snmp.result[1][1].lastChange = Num(Bits(700))
    /\ snmp.result[1][2].lastChange = Num(Bits(300))

----------------------------------------------------------------------------
\* The body is JSON, and neither an array nor an object with an interfaces
\* array.
OtherShape(json) ==
    /\ json.kind # "text"
    /\ json.kind # "array"
    /\ ~(json.kind = "object" /\ json.interfaces # <<>>)

(* C28: when the body of the status response is JSON that is neither an    *)
(* array nor an object with an interfaces array, the REST poll returns an  *)
(* empty result list and does not fail.                                    *)
C28_OtherShapeGivesEmptyList ==
    \A c \in Calls :
        (rest[c].pc \in Ended /\ rest[c].response # <<>>
                              /\ OtherShape(rest[c].response[1].body)) =>
            /\ rest[c].pc = "returned"
            /\ rest[c].result = << <<>> >>
            /\ rest[c].error = <<>>

\* A poll has returned the empty list for the body null.
C28_Witness ==
    /\ rest[1].pc = "returned"
    /\ rest[1].response = <<HttpResponse(200, NullBody)>>
    /\ rest[1].result = << <<>> >>

----------------------------------------------------------------------------
(* The library's getWanStatuses: it reads FETCH_METHOD, calls one of the   *)
(* two clients and returns that client's promise.                          *)

\* process.env.FETCH_METHOD: undefined, or a text.
FetchMethods == {Undefined, <<"">>, <<"snmp">>, <<"SNMP">>, <<"api">>, <<"rest">>}

ToLowerCase(text) == IF text = "SNMP" THEN "snmp" ELSE text

\* getFetchMethod
getFetchMethod(value) ==
    LET method == ToLowerCase(IF value = Undefined \/ value = <<"">> THEN "api" ELSE value[1])
    IN  IF method = "snmp" THEN "snmp" ELSE "api"

\* The call of the REST client the library makes.
ViaAPI == 1

\* Lines 335-345, to the first await of the client.
FacadeCall ==
    /\ facade.pc = "idle"
    /\ \E value \in FetchMethods :
          LET method == getFetchMethod(value)
          IN  /\ facade' = [facade EXCEPT !.pc = "awaiting", !.selector = value,
                                          !.method = method,
                                          !.invoked = Append(@, method)]
              /\ IF method = "snmp"
                 THEN SnmpStart /\ UNCHANGED restVars
                 ELSE RestStart(ViaAPI) /\ UNCHANGED snmp
    /\ UNCHANGED <<trackerVars, dashVars, last, resp, overlap, calc, conv, digest>>

\* The client's promise settles, and with it the library's.
\* (First the variant that turns to the REST client when the SNMP client fails.)
FacadeSettles_FallsBack ==
    /\ facade.pc = "awaiting"
    /\ IF facade.method = "snmp" /\ snmp.pc = "thrown" /\ Len(facade.invoked) = 1
       THEN /\ facade' = [facade EXCEPT !.invoked = Append(@, "api"), !.method = "api"]
            /\ RestStart(ViaAPI)
       ELSE /\ LET client == IF facade.method = "snmp" THEN snmp ELSE rest[ViaAPI]
               IN  /\ client.pc \in {"returned", "thrown"}
                   /\ facade' = [facade EXCEPT !.pc = client.pc, !.result = client.result,
                                               !.error = client.error]
            /\ UNCHANGED restVars
    /\ UNCHANGED <<trackerVars, dashVars, last, resp, overlap, calc, snmp, conv, digest>>
FacadeSettles ==
    /\ facade.pc = "awaiting"
    /\ LET client == IF facade.method = "snmp" THEN snmp ELSE rest[ViaAPI]
       IN  /\ client.pc \in {"returned", "thrown"}
           /\ facade' = [facade EXCEPT !.pc = client.pc, !.result = client.result,
                                       !.error = client.error]
    /\ UNCHANGED <<trackerVars, dashVars, last, resp, overlap, calc, restVars, snmp, conv, digest>>

NextFacade ==
    \/ FacadeCall \/ FacadeSettles
    \/ RestChallenge \/ RestAuth \/ RestStatus \/ RestJson \/ RestFetchFails
    \/ SnmpIfDescr \/ SnmpIpAddr \/ SnmpIpIndex \/ SnmpIpMask \/ SnmpGet \/ SnmpFails

SpecFacade == Init /\ [][NextFacade]_vars

(* C25: the acquisition facade invokes exactly one acquisition client per  *)
(* call (SNMP when the method selector is 'snmp', REST otherwise), returns *)
(* that client's result unmodified, and when that client fails it surfaces *)
(* the failure without retrying and without falling back to the other     *)
(* client.                                                                 *)
C25_OneClientItsResult ==
    facade.pc # "idle" =>
        /\ Len(facade.invoked) = 1
        /\ facade.invoked[1] = facade.method
        /\ facade.selector = <<"snmp">> => facade.invoked = <<"snmp">>
        /\ facade.selector \in {Undefined, <<"">>, <<"api">>, <<"rest">>} =>
               facade.invoked = <<"api">>
        /\ facade.method = "snmp" =>
               /\ rest[ViaAPI].pc = "idle"
               /\ Len(snmp.requests) <= 5
               /\ facade.pc = "returned" =>
                      (snmp.pc = "returned" /\ facade.result = snmp.result)
               /\ facade.pc = "thrown" =>
                      (snmp.pc = "thrown" /\ facade.error = snmp.error /\ facade.result = <<>>)
        /\ facade.method # "snmp" =>
               /\ snmp.pc = "idle"
               /\ Len(rest[ViaAPI].sent) <= 3
               /\ facade.pc = "returned" =>
                      (rest[ViaAPI].pc = "returned" /\ facade.result = rest[ViaAPI].result)
               /\ facade.pc = "thrown" =>
                      (rest[ViaAPI].pc = "thrown" /\ facade.error = rest[ViaAPI].error
                                                  /\ facade.result = <<>>)

\* The SNMP client was chosen and failed: the facade has thrown its error,
\* and the REST client was never called.
C25_Witness ==
    /\ facade.pc = "thrown"
    /\ facade.invoked = <<"snmp">>
    /\ facade.error = <<<<"RequestTimedOutError">>>>
    /\ rest[ViaAPI].pc = "idle"

----------------------------------------------------------------------------
(* C22: a poll through either backend returns either a result built from   *)
(* all of its requests or an error: a transport error or timeout on any    *)
(* walk, batched GET or HTTP request makes the whole poll fail, never a    *)
(* partial result list.                                                    *)
C22_ResultOfAllRequestsOrError ==
    LET viaApi == rest[ViaAPI]
    IN  /\ viaApi.error # <<>> => (viaApi.pc = "thrown" /\ viaApi.result = <<>>)
        /\ viaApi.result # <<>> =>
               /\ viaApi.pc = "returned"
               /\ viaApi.error = <<>>
               /\ Len(viaApi.sent) = 3
               /\ viaApi.challenge # <<>>
               /\ viaApi.authResponse # <<>>
               /\ viaApi.response # <<>>
        /\ snmp.error # <<>> => (snmp.pc = "thrown" /\ snmp.result = <<>>)
        /\ snmp.result # <<>> =>
               /\ snmp.pc = "returned"
               /\ snmp.error = <<>>
               /\ Len(snmp.requests) = 5
               /\ snmp.answers = 5
               /\ Len(snmp.results) = Len(snmp.allOids)
               /\ Len(snmp.result[1]) = Len(Keys(snmp.ifIndexMap))
        /\ facade.error # <<>> => (facade.pc = "thrown" /\ facade.result = <<>>)

\* The third walk timed out after two walks were answered: the poll has
\* failed, at the client and at the facade, without a result.
C22_Witness ==
    /\ snmp.pc = "thrown"
    /\ snmp.answers = 2
    /\ snmp.error = <<<<"RequestTimedOutError">>>>
    /\ snmp.result = <<>>
    /\ facade.pc = "thrown"

\* The records of the poll results there are.
PollResults ==
    {r \in {rest[ViaAPI].result, snmp.result, facade.result} : r # <<>>}

(* C26: every poll result from either backend contains only records whose  *)
(* name is one of the configured wanted-interface identifiers in           *)
(* uppercase, and no two records of one result have the same name.         *)
C26_WantedNamesOnceEach ==
    \A r \in PollResults :
        /\ \A i \in 1..Len(r[1]) : r[1][i].name \in Wanted
        /\ \A i, j \in 1..Len(r[1]) : r[1][i].name = r[1][j].name => i = j

\* The first half of C26, which holds: the names are wanted identifiers in
\* uppercase, and the SNMP client returns none of them twice.
C26_WantedNames ==
    /\ \A r \in PollResults : \A i \in 1..Len(r[1]) : r[1][i].name \in Wanted
    /\ snmp.result # <<>> =>
           \A i, j \in 1..Len(snmp.result[1]) :
               snmp.result[1][i].name = snmp.result[1][j].name => i = j

(* The polls of the facade against a device that may fall silent.  A       *)
(* request of the SNMP session is answered or ends in an error: the        *)
(* session is created with a timeout of 5000 ms and one retry.  The        *)
(* fetch calls of the REST client are given no timeout and no signal:      *)
(* nothing in the program ends a request the device does not answer.       *)
SnmpRequestEnds ==
    SnmpIfDescr \/ SnmpIpAddr \/ SnmpIpIndex \/ SnmpIpMask \/ SnmpGet \/ SnmpFails

SpecSilent ==
    /\ Init
    /\ [][NextFacade]_vars
    /\ WF_vars(FacadeSettles)
    /\ WF_vars(RestJson)
    /\ WF_vars(SnmpRequestEnds)

FacadeEnded == facade.pc \in {"returned", "thrown"}

(* C21: every poll eventually completes or fails: if the device never      *)
(* answers one of the underlying requests, that request ends after a       *)
(* bounded wait and the poll fails instead of staying in flight forever.   *)
C21_EveryPollEnds == (facade.pc = "awaiting") ~> FacadeEnded

\* The part of C21 that holds: a poll through the SNMP client ends.
C21_SnmpPollEnds == (facade.pc = "awaiting" /\ facade.method = "snmp") ~> FacadeEnded

----------------------------------------------------------------------------
\* A counter of the call's history went down from one in-window sample to the
\* next.
CounterWentDown ==
    \E k \in CalcIn :
        /\ k + 1 \in CalcIn
        /\ \/ calc[1].history[k + 1].bytesIn < calc[1].history[k].bytesIn
           \/ calc[1].history[k + 1].bytesOut < calc[1].history[k].bytesOut

(* C33: calculateBandwidth reports 'unavailable' whenever a byte counter   *)
(* decreased between any two consecutive samples inside the window, not    *)
(* only when the newest in-window sample is below the oldest.              *)
C33_UnavailableOnAnyDecrease ==
    (calc # <<>> /\ CounterWentDown) => calc[1].result = <<>>

----------------------------------------------------------------------------
\* The hash function a Digest algorithm name stands for (RFC 7616).
HashNamed(algorithm) ==
    IF algorithm \in {"MD5", "MD5-sess"} THEN "md5"
    ELSE IF algorithm \in {"SHA-256", "SHA-256-sess"} THEN "sha256"
    ELSE "unknown"

(* C31: buildDigestHeader computes its hashes with, and names in the       *)
(* header's algorithm field, the hash algorithm named in the challenge it  *)
(* is given.  Checked on every authenticated request a call has sent whose *)
(* challenge names an algorithm.                                           *)
C31_UsesTheNamedAlgorithm ==
    \A c \in Calls :
        \A j \in 1..Len(Authenticated(c)) :
            LET header == Authenticated(c)[j].authorization[1]
                challenge == rest[c].challenge[1]
            IN "algorithm" \in DOMAIN challenge =>
                   /\ header.algorithm = challenge.algorithm
                   /\ header.response[1] = HashNamed(challenge.algorithm)
                   /\ header.response[2][1][1] = HashNamed(challenge.algorithm)
                   /\ header.response[2][6][1] = HashNamed(challenge.algorithm)

\* What holds: every header names MD5 and carries MD5 hashes, whatever the
\* challenge names.
C31_AlwaysMD5 ==
    \A c \in Calls :
        \A j \in 1..Len(Authenticated(c)) :
            LET header == Authenticated(c)[j].authorization[1]
            IN /\ header.algorithm = "MD5"
               /\ header.response[1] = "md5"
               /\ header.response[2][1][1] = "md5"
               /\ header.response[2][6][1] = "md5"

----------------------------------------------------------------------------
\* The k-th event ever emitted is the first of its interface.
FirstEventOfItsInterface(k) ==
    \A j \in 1..(k - 1) : emitted[j].interfaceName # emitted[k].interfaceName

(* C32 (as stated): the first event ever logged for an interface carries   *)
(* no duration; an event carries a duration only when the interface had a  *)
(* prior resolved (up or down) state to measure from, also when the        *)
(* interface's first observation was an unknown reading.                   *)
C32_FirstEventWithoutDuration ==
    \A k \in 1..Len(emitted) :
        FirstEventOfItsInterface(k) => emitted[k].duration = <<>>

(* C32 (amended): an event carries no duration exactly when the reading    *)
(* that logs it is the first observation of its interface; an event logged *)
(* for an interface that already has a stored LinkState carries the time   *)
(* since the stored lastChangeTime, also when the stored state is unknown: *)
(* the first event of an interface first observed as unknown carries the   *)
(* time since that observation.                                            *)
C32_NoDurationOnlyOnFirstObservation ==
    [][IsPass =>
        /\ PassIsTheStep
        /\ emitted' = emitted \o PassAt(PassLen).out
        /\ \A k \in 1..PassLen :
             LET n == Reading(k).name
                 b == PassAt(k - 1)
                 a == PassAt(k)
             IN /\ Len(a.out) \in {Len(b.out), Len(b.out) + 1}
                /\ Len(a.out) = Len(b.out) + 1 =>
                     LET e == a.out[Len(a.out)]
                     IN /\ e = Head(LogOf(a))
                        /\ e.interfaceName = n
                        /\ e.duration = <<>> <=> n \notin DOMAIN MapOf(b)
                        /\ n \in DOMAIN MapOf(b) =>
                             e.duration = <<clock' - DateParse(MapOf(b)[n].lastChangeTime)>>]_vars

\* An interface was first observed as unknown at time 0 and read up at time
\* 1: the one event ever logged for it carries the duration 1.
C32_Witness ==
    /\ clock = 1
    /\ \E k \in 1..Len(emitted) :
          /\ FirstEventOfItsInterface(k)
          /\ emitted[k].event = "up"
          /\ emitted[k].timestamp = ToISOString(1)
          /\ emitted[k].duration = <<1>>
          /\ IspStates[emitted[k].interfaceName].linkUp = "true"

----------------------------------------------------------------------------
\* The events of interface n among events, as their positions, and the last.
EventsOf(events, n) == {k \in 1..Len(events) : events[k].interfaceName = n}
LastOf(K) == CHOOSE k \in K : \A j \in K : j <= k

(* C34: for every interface, consecutive events emitted for it alternate   *)
(* between up and down: no two successive events of the same interface     *)
(* carry the same event type, over any sequence of polls including unknown *)
(* readings and polls that omit the interface.                             *)
C34_EventsAlternate ==
    \A i, j \in 1..Len(emitted) :
        (/\ i < j
         /\ emitted[i].interfaceName = emitted[j].interfaceName
         /\ \A k \in (i + 1)..(j - 1) : emitted[k].interfaceName # emitted[i].interfaceName)
        => emitted[i].event # emitted[j].event

\* An interface logged up; the last poll read it unknown and then down: its
\* two events are up, then down.
C34_Witness ==
    /\ last.op = "resolve"
    /\ Len(last.statuses) = 2
    /\ last.statuses[1].linkUp = Null
    /\ last.statuses[2].linkUp = "false"
    /\ last.statuses[1].name = last.statuses[2].name
    /\ LET K == EventsOf(emitted, last.statuses[1].name)
       IN /\ Cardinality(K) = 2
          /\ \E i, j \in K : i < j /\ emitted[i].event = "up" /\ emitted[j].event = "down"

\* The link state an event type stands for.
StateOfEvent(event) == IF event = "up" THEN "true" ELSE "false"

\* The stored state of every interface of map agrees with the events: with
\* the last event of the interface, or unknown if it has none.
StoredAgreesWithEvents(map, events) ==
    \A n \in DOMAIN map :
        LET K == EventsOf(events, n)
        IN IF K # {}
           THEN /\ map[n].linkUp = StateOfEvent(events[LastOf(K)].event)
                /\ map[n].lastChangeTime = events[LastOf(K)].timestamp
           ELSE map[n].linkUp = Null

(* C35: after every state-update pass, for every interface that has        *)
(* emitted at least one event, its stored linkUp equals the type of its    *)
(* most recently emitted event and its lastChangeTime equals that event's  *)
(* timestamp; an interface that has emitted no event has stored linkUp     *)
(* unknown and lastChangeTime equal to the time of its first observation:  *)
(* the time of the pass that created its state, kept by every later pass.  *)
C35_StoredStateIsLastEvent ==
    [][IsPass =>
        /\ StoredAgreesWithEvents(IspStates', emitted')
        /\ \A n \in DOMAIN IspStates' :
             EventsOf(emitted', n) = {} =>
                 IF n \in DOMAIN IspStates
                 THEN IspStates'[n].lastChangeTime = IspStates[n].lastChangeTime
                 ELSE IspStates'[n].lastChangeTime = ToISOString(clock')]_vars

\* After a pass at time 1: one interface is stored as its last event says,
\* logged by this pass, and another, first observed unknown at time 0, has
\* no event and still carries time 0.
C35_Witness ==
    /\ last.op = "resolve"
    /\ clock = 1
    /\ StoredAgreesWithEvents(IspStates, emitted)
    /\ \E n, m \in DOMAIN IspStates :
          /\ EventsOf(emitted, n) # {}
          /\ emitted[LastOf(EventsOf(emitted, n))].timestamp = ToISOString(1)
          /\ IspStates[n].lastChangeTime = ToISOString(1)
          /\ EventsOf(emitted, m) = {}
          /\ IspStates[m] = [linkUp |-> Null, lastChangeTime |-> ToISOString(0)]

----------------------------------------------------------------------------
(* Overlapping calls of getTrackedStatuses.  A call awaits its acquisition *)
(* and then, without a further await, runs processStatuses and builds the  *)
(* snapshot it returns: what follows the await runs to completion before   *)
(* any other continuation of the process starts.  The acquisitions of two  *)
(* calls complete in either order.                                         *)

\* The tracker state a pass works on: processStatuses calls getState() itself,
\* after the await.  (First the variant that works on the state the call
\* found when it was made.)
PassInput_AtCallStart(ov, c) == ov.calls[c].seen[1]
PassInput(ov, c) == ov.mem

\* The tracker's contents as values: what a state of the process holds.
TrackerOf(mem) ==
    IF mem.g = <<>> THEN <<>>
    ELSE <<[serverStartedAt |-> mem.g[1].serverStartedAt,
            ispStates |-> mem.heap[mem.g[1].ispStates],
            eventLog |-> mem.heap[mem.g[1].eventLog],
            eventIdCounter |-> mem.g[1].eventIdCounter]>>

OverlapFrame == UNCHANGED <<trackerVars, dashVars, last, resp, calc, restVars, libVars>>

\* getTrackedStatuses() is called: it calls getWanStatuses() and suspends.
OverlapBegin ==
    /\ \E c \in Calls :
          /\ overlap.calls[c].pc = "idle"
          /\ overlap' = [overlap EXCEPT !.calls[c].pc = "awaiting",
                                        !.calls[c].seen = <<overlap.mem>>]
    /\ OverlapFrame

\* The acquisition of call c resolves at time now: the pass runs, the
\* snapshot is built, the call returns.
OverlapResolve ==
    /\ \E c \in Calls, statuses \in TrackerPolls, now \in overlap.now..MaxClock :
          /\ overlap.calls[c].pc = "awaiting"
          /\ \E done \in {ProcessStatuses(PassInput(overlap, c), statuses, now)} :
                LET sn == TrackerSnapshot([g |-> done.g, heap |-> done.heap])
                IN overlap' =
                      [overlap EXCEPT
                          !.mem = [g |-> done.g, heap |-> done.heap],
                          !.now = now,
                          !.calls[c].pc = "returned",
                          !.calls[c].returned =
                              <<[statuses |-> statuses,
                                 tracker |-> View(sn.snap, sn.heap),
                                 pass |-> Len(overlap.passes) + 1]>>,
                          !.passes = Append(@, [statuses |-> statuses, now |-> now])]
    /\ OverlapFrame

\* The acquisition of call c rejects: the call rejects before any pass.
OverlapReject ==
    /\ \E c \in Calls, now \in overlap.now..MaxClock :
          /\ overlap.calls[c].pc = "awaiting"
          /\ overlap' = [overlap EXCEPT !.now = now, !.calls[c].pc = "thrown"]
    /\ OverlapFrame

NextOverlap == OverlapBegin \/ OverlapResolve \/ OverlapReject

SpecOverlap == Init /\ [][NextOverlap]_vars

\* The passes one after the other, each a whole pass, from the state mem.
RECURSIVE Replay(_, _)
Replay(mem, passes) ==
    IF passes = <<>> THEN mem
    ELSE LET done == ProcessStatuses(mem, Head(passes).statuses, Head(passes).now)
         IN Replay([g |-> done.g, heap |-> done.heap], Tail(passes))

\* Both calls were made before the acquisition of either had completed.
Overlapped ==
    \A c \in Calls : overlap.calls[c].seen = <<IdleOverlap.mem>>

(* C36: each state-update pass runs without interleaving with another      *)
(* pass: when two getTrackedStatuses calls overlap in time, the tracker    *)
(* state after both finish equals the state obtained by applying their two *)
(* poll results as two whole passes one after the other, in the order in   *)
(* which their acquisitions completed; each call returns the tracker as    *)
(* its own pass left it.                                                   *)
C36_OverlappingPassesInSequence ==
    (Overlapped /\ \A c \in Calls : overlap.calls[c].pc \in Ended) =>
        /\ TrackerOf(overlap.mem) = TrackerOf(Replay(IdleOverlap.mem, overlap.passes))
        /\ Len(overlap.passes) = Cardinality({c \in Calls : overlap.calls[c].pc = "returned"})
        /\ \A c \in Calls :
              overlap.calls[c].pc = "returned" =>
                  LET own == overlap.calls[c].returned[1]
                      then == TrackerOf(Replay(IdleOverlap.mem, SubSeq(overlap.passes, 1, own.pass)))[1]
                  IN /\ overlap.passes[own.pass].statuses = own.statuses
                     /\ own.tracker = [ispStates |-> then.ispStates, eventLog |-> then.eventLog]

\* Two calls overlapped and both returned, the first to complete with a poll
\* that reads an interface up and the second with one that reads it down,
\* later: the tracker holds both events, and the other order of the two
\* passes would have left a different state.
C36_Witness ==
    /\ Overlapped
    /\ \A c \in Calls : overlap.calls[c].pc = "returned"
    /\ overlap.calls[2].returned[1].pass = 1
    /\ overlap.passes[1].now < overlap.passes[2].now
    /\ Len(TrackerOf(overlap.mem)[1].eventLog) = 2
    /\ TrackerOf(overlap.mem)[1].eventLog[1].duration # <<>>
    /\ TrackerOf(overlap.mem)
         # TrackerOf(Replay(IdleOverlap.mem, <<overlap.passes[2], overlap.passes[1]>>))

----------------------------------------------------------------------------
\* Both calls of the REST client have returned or thrown.
BothEnded == \A c \in Calls : rest[c].pc \in Ended

\* One call found the setting "0" where the other had found something else:
\* it began while the other, having relaxed the setting, was in flight (a
\* call puts back what it found when it ends).
BeganDuringTheOther ==
    \E c, d \in Calls :
        /\ rest[c].before # <<"0">>
        /\ rest[d].before = <<"0">>

(* C37: when two REST polls with TLS relaxation enabled overlap in time,   *)
(* once both have finished the process-wide TLS verification setting       *)
(* equals the value it had before the first of them began: the value the   *)
(* call that began first found.                                            *)
C37_OverlappingPollsRestoreTls ==
    (InsecureTls(env) /\ BothEnded /\ BeganDuringTheOther) =>
        \A c \in Calls :
            rest[c].before # <<"0">> => env.NODE_TLS_REJECT_UNAUTHORIZED = rest[c].before

\* What holds: the setting is left as the first call found it or relaxed.
C37_RestoredOrLeftRelaxed ==
    (InsecureTls(env) /\ BothEnded /\ BeganDuringTheOther) =>
        \A c \in Calls :
            rest[c].before # <<"0">> =>
                env.NODE_TLS_REJECT_UNAUTHORIZED \in {rest[c].before, <<"0">>}

----------------------------------------------------------------------------
(* The two trackers side by side: every poll result is processed by the    *)
(* server (processStatuses) and by the dashboard (updateStatesAndLog) at   *)
(* the same time.  The polls name each interface once at most.             *)

TwinPolls ==
    {p \in TrackerPolls : \A i, j \in 1..Len(p) : p[i].name = p[j].name => i = j}

TwinResolve ==
    /\ EventIdCounter < MaxEvents
    /\ ResolveWith(TwinPolls, clock..MaxClock, {FALSE})
    /\ \E d \in {LoadSuccess(dash, [ok |-> TRUE, fetchedAt |-> ToISOString(clock'),
                                    statuses |-> last'.statuses], clock')} :
          /\ dash' = d
          /\ bandwidthStats' = BandwidthStats(d.trafficHistory, clock')
    /\ bclock' = clock'
    /\ UNCHANGED <<loads, fetching, resp>>

NextTwin == TrackedBegin \/ TwinResolve

SpecTwin == Init /\ [][NextTwin]_vars

\* What the claim compares of a log entry; the dashboard keeps times as Date
\* objects, the server as ISO strings.
ServerEntry(e) ==
    [interfaceName |-> e.interfaceName, event |-> e.event,
     timestamp |-> DateParse(e.timestamp), duration |-> e.duration]
DashEntry(e) ==
    [interfaceName |-> e.interfaceName, event |-> e.event,
     timestamp |-> e.timestamp, duration |-> e.duration]

\* The two trackers hold the same LinkState for the same interfaces.
SameLinkStates ==
    /\ DOMAIN dash.ispStates = DOMAIN IspStates
    /\ \A n \in DOMAIN IspStates :
          /\ dash.ispStates[n].linkUp = IspStates[n].linkUp
          /\ dash.ispStates[n].lastChangeTime = DateParse(IspStates[n].lastChangeTime)

(* C38: the dashboard's tracker (updateStatesAndLog) and the server's      *)
(* (processStatuses), fed the same sequence of poll results at the same    *)
(* times, hold the same per-interface LinkState after every poll and the   *)
(* same event log, entry for entry in the same head-to-tail order of       *)
(* (interface, event, timestamp, duration), including when one poll        *)
(* produces events for several interfaces.                                 *)
C38_SameStatesSameLog ==
    /\ SameLinkStates
    /\ Len(dash.eventLog) = Len(EventLog)
    /\ \A k \in 1..Len(EventLog) : DashEntry(dash.eventLog[k]) = ServerEntry(EventLog[k])

\* What holds: the same states and the same entries, those of one poll in
\* the opposite order: the dashboard's log is the server's with the entries
\* of each timestamp reversed among themselves.
C38_SameStatesSameEntries ==
    /\ SameLinkStates
    /\ dash.eventIdCounter = EventIdCounter
    /\ Len(dash.eventLog) = Len(EventLog)
    /\ \A k \in 1..Len(EventLog) :
          \E j \in 1..Len(EventLog) :
              /\ DashEntry(dash.eventLog[j]) = ServerEntry(EventLog[k])
              /\ dash.eventLog[j].id = <<"event", EventLog[k].id>>

----------------------------------------------------------------------------
(* The dashboard's poller with responses that overtake one another: the    *)
(* k-th call of load() is made at k * refreshIntervalMs, the route answers *)
(* with the time of its poll, and the responses in flight are handled in   *)
(* any order, each before the timer is next due.                           *)

ReorderFetch ==
    /\ Issued < MaxLoads
    /\ fetching' = fetching + 1
    /\ bclock' = Issued * RefreshIntervalMs
    /\ \E p \in DashPolls :
          resp' = Append(resp, [ok |-> TRUE, fetchedAt |-> ToISOString(bclock'), statuses |-> p])
    /\ last' = [op |-> "fetch", statuses |-> <<>>]
    /\ UNCHANGED <<trackerVars, dash, bandwidthStats, loads, elsewhere>>

\* resp without its k-th element
Without(seq, k) == SubSeq(seq, 1, k - 1) \o SubSeq(seq, k + 1, Len(seq))

ReorderLoadOk ==
    /\ bclock + ResponseDelayMs < Issued * RefreshIntervalMs
    /\ \E k \in 1..Len(resp) :
          /\ LoadOkWith({[r |-> resp[k], now |-> bclock + ResponseDelayMs]})
          /\ resp' = Without(resp, k)
    /\ fetching' = fetching - 1
    /\ UNCHANGED trackerVars

\* A response is lost on its way: fetch throws.
ReorderLoadFail ==
    /\ bclock + ResponseDelayMs < Issued * RefreshIntervalMs
    /\ \E k \in 1..Len(resp) :
          /\ LoadFailWith({"Failed to fetch"}, {bclock + ResponseDelayMs})
          /\ resp' = Without(resp, k)
    /\ fetching' = fetching - 1
    /\ UNCHANGED trackerVars

NextReorder == ReorderFetch \/ ReorderLoadOk \/ ReorderLoadFail

SpecReorder == Init /\ [][NextReorder]_vars

(* C39: in the dashboard's traffic history, the samples of each interface  *)
(* are in non-decreasing timestamp order after any sequence of updates,    *)
(* including when poll responses are processed in a different order than   *)
(* their requests were sent, so the first and last in-window samples used  *)
(* by calculateBandwidth are the oldest and the newest.                    *)
C39_SamplesInTimeOrder ==
    \A n \in DOMAIN dash.trafficHistory :
        LET h == dash.trafficHistory[n]
        IN /\ \A i, j \in 1..Len(h) : i < j => h[i].timestamp <= h[j].timestamp
           /\ \A w \in {ShortWindowSec, LongWindowSec} :
                LET samplesInWindow ==
                        SelectSeq(h, LAMBDA x : x.timestamp >= bclock - w * MsPerSec)
                IN samplesInWindow # <<>> =>
                      \A k \in 1..Len(samplesInWindow) :
                          /\ samplesInWindow[1].timestamp <= samplesInWindow[k].timestamp
                          /\ samplesInWindow[k].timestamp
                               <= samplesInWindow[Len(samplesInWindow)].timestamp

\* The response of the first request was handled second, after that of a
\* later request: the history of X1 holds both samples in the order of
\* handling.
C39_Witness ==
    /\ last.op = "loadOk"
    /\ loads = 2
    /\ dash.fetchedAt = <<ToISOString(0)>>
    /\ bclock > RefreshIntervalMs
    /\ "X1" \in DOMAIN dash.trafficHistory
    /\ Len(dash.trafficHistory["X1"]) = 2
    /\ dash.trafficHistory["X1"][1].timestamp < dash.trafficHistory["X1"][2].timestamp
    /\ dash.trafficHistory["X1"][2].timestamp = bclock

====
